---- MODULE Spec2Model ----
(***************************************************************************)
(* gymctl: the exercise lifecycle commands (start, check, hint, stop,      *)
(* reset, recover) over the persisted progress document, the current-      *)
(* exercise pointer, the reserved kind cluster and the docker environment. *)
(***************************************************************************)
EXTENDS Integers, Sequences, FiniteSets, TLC

VARIABLES
    tasks,        \* names of the exercise definitions under the tasks directory
    fileState,    \* the progress file on disk: "missing", "valid" or "corrupt"
    fileDoc,      \* its content when valid: [version, exercises]
    current,      \* content of the "current" pointer file; "" when absent
    cluster,      \* exercise whose provisioning created cluster jerry-gym; "none"
    dockerEnv,    \* per exercise: "none", "partial" or "up"
    now,          \* the wall clock read by time.Now()
    last,         \* the last command run and how it ended
    mgr,          \* a DockerManager call by call: declaration, resources, last call
    kube,         \* the cluster provisioning of one start/reset, step by step
    eng           \* the check engine: the checks given and the results returned

\* The state the commands work on, and the state of the component views.
cmdVars == <<tasks, fileState, fileDoc, current, cluster, dockerEnv, now, last>>
unitVars == <<mgr, kube, eng>>

vars == <<tasks, fileState, fileDoc, current, cluster, dockerEnv, now, last,
          mgr, kube, eng>>

(***************************************************************************)
(* Bounds of the model.                                                    *)
(***************************************************************************)
MaxTime == 2
MaxResets == 1
MaxContainers == 2
MaxCopyFiles == 2
MaxReports == 1
MaxManifests == 2
MaxWaits == 2
MaxChecks == 2
MaxExitCode == 2
MaxFiles == 3
MaxRuns == 1

(***************************************************************************)
(* The exercise definitions (scenario.Exercise), by metadata.name.         *)
(* createCluster is the *bool of KubernetesSpec: "nil", "true" or "false". *)
(***************************************************************************)
KubeA ==
    [envType |-> "kubernetes", hasDecl |-> TRUE, createCluster |-> "nil",
     points |-> 0, hints |-> 2, checks |-> 2, manifests |-> 1, waits |-> 1,
     compose |-> FALSE, containers |-> 0, copyFiles |-> 0]

KubeB ==
    [envType |-> "kubernetes", hasDecl |-> TRUE, createCluster |-> "true",
     points |-> 30, hints |-> 1, checks |-> 1, manifests |-> 0, waits |-> 0,
     compose |-> FALSE, containers |-> 0, copyFiles |-> 0]

DockA ==
    [envType |-> "docker", hasDecl |-> TRUE, createCluster |-> "nil",
     points |-> 50, hints |-> 1, checks |-> 1, manifests |-> 0, waits |-> 0,
     compose |-> TRUE, containers |-> 1, copyFiles |-> 1]

DockB ==
    [envType |-> "docker", hasDecl |-> TRUE, createCluster |-> "nil",
     points |-> 20, hints |-> 0, checks |-> 1, manifests |-> 0, waits |-> 0,
     compose |-> FALSE, containers |-> 1, copyFiles |-> 0]

Broken ==
    [envType |-> "docker", hasDecl |-> FALSE, createCluster |-> "nil",
     points |-> 0, hints |-> 0, checks |-> 0, manifests |-> 0, waits |-> 0,
     compose |-> FALSE, containers |-> 0, copyFiles |-> 0]

Catalog ==
    [n \in {"kube-a", "kube-b", "dock-a", "dock-b", "broken"} |->
        CASE n = "kube-a" -> KubeA
          [] n = "kube-b" -> KubeB
          [] n = "dock-a" -> DockA
          [] n = "dock-b" -> DockB
          [] OTHER        -> Broken]

ExerciseNames == DOMAIN Catalog


\* The tasks directories the model is run on.
Worlds == {{"kube-a"}, {"dock-a"}, {"broken"}}

(***************************************************************************)
(* internal/progress: the persisted document.                              *)
(***************************************************************************)
\* The zero value of progress.ExerciseStatus; timestamps are clock readings,
\* 0 standing for the empty string.
ExerciseStatus ==
    [status |-> "", startedAt |-> 0, completedAt |-> 0, hintsUsed |-> 0,
     resets |-> 0, score |-> 0]

\* File{Version: 1, Exercises: map[string]ExerciseStatus{}}
EmptyFile == [version |-> 1, exercises |-> <<>>]

\* Reading a Go map: the zero value when the key is absent.
Get(exercises, name) ==
    IF name \in DOMAIN exercises THEN exercises[name] ELSE ExerciseStatus

\* Mutant of Put: the written key is the only one kept.
PutAlone(exercises, name, entry) == [k \in {name} |-> entry]

\* Writing a Go map: the key is added or replaced.
Put(exercises, name, entry) ==
    [k \in (DOMAIN exercises) \cup {name} |->
        IF k = name THEN entry ELSE exercises[k]]

\* Mutant of Load: a file that does not parse is read as the empty document.
LoadRepairing(state, doc) ==
    CASE state = "valid" -> [ok |-> TRUE, file |-> doc]
      [] OTHER -> [ok |-> TRUE, file |-> EmptyFile]

\* progress.Load: a missing file loads as the empty document, a file that does
\* not parse is an error, version 0 is read as 1.
Load(state, doc) ==
    CASE state = "missing" -> [ok |-> TRUE, file |-> EmptyFile]
      [] state = "corrupt" -> [ok |-> FALSE, file |-> EmptyFile]
      [] OTHER -> [ok |-> TRUE,
                   file |-> [doc EXCEPT !.version =
                                IF doc.version = 0 THEN 1 ELSE doc.version]]

\* progress.Save: the whole document replaces the file.
Save(file) == [state |-> "valid", doc |-> file]

\* What is on disk, as one value.
Disk(state, doc) == [state |-> state, doc |-> doc]

(***************************************************************************)
(* internal/cli/helpers.go                                                 *)
(***************************************************************************)
defaultPoints(points) == IF points = 0 THEN 100 ELSE points

\* loadCurrentExercise fails when the pointer file is absent or blank.
loadCurrentExercise(cur) == [ok |-> cur # "", name |-> cur]

\* The name a command with an optional argument works on.
ResolveName(arg, cur) ==
    IF arg # "" THEN [ok |-> TRUE, name |-> arg] ELSE loadCurrentExercise(cur)

\* scenario.FindByName over the loaded catalog.
FindByName(entries, name) == name \in entries

(***************************************************************************)
(* External tools.  Each command run meets at most one failing external    *)
(* step (a command stops at the first error it does not ignore); "none"    *)
(* means every tool call succeeds.                                         *)
(***************************************************************************)
\* The external steps a declaration can make a command run.
StepsOf(ex) ==
    CASE ex.envType = "kubernetes" /\ ex.hasDecl ->
            {"exists", "delete", "create"}
                \cup (IF ex.manifests > 0 THEN {"apply"} ELSE {})
                \cup (IF ex.waits > 0 THEN {"wait"} ELSE {})
      [] ex.envType = "docker" /\ ex.hasDecl ->
            (IF ex.copyFiles > 0 THEN {"stage", "copy"} ELSE {})
                \cup (IF ex.compose THEN {"compose", "down"} ELSE {})
                \cup (IF ~ex.compose /\ ex.containers > 0 THEN {"build", "run"} ELSE {})
      [] OTHER -> {}

\* What can fail in a command on `name` that runs the steps `steps`: nothing,
\* the catalog load, or one of the steps the exercise declares.
Failures(name, steps) ==
    {"none", "catalog"}
        \cup (IF name \in tasks THEN StepsOf(Catalog[name]) \cap steps ELSE {})

\* --no-cluster matters to cluster exercises only.
NoClusterFlags(name) ==
    IF name \in tasks /\ Catalog[name].envType = "kubernetes" THEN BOOLEAN ELSE {FALSE}

\* What a command leaves behind: how it ended, the progress file, the current
\* pointer, the cluster and the docker environments.
Outcome(res, disk, cur, cl, de) ==
    [res |-> res, disk |-> disk, cur |-> cur, cluster |-> cl, denv |-> de]

\* The effective createCluster of start/reset/stop: true unless declared false.
createClusterOf(ex, noCluster) ==
    IF noCluster THEN FALSE ELSE ex.createCluster # "false"

\* KindManager.Delete: `kind delete cluster`; a failure leaves the cluster.
KindDelete(cl, fail) ==
    IF fail = "delete" THEN [ok |-> FALSE, cluster |-> cl]
    ELSE [ok |-> TRUE, cluster |-> "none"]

\* KindManager.Create: `kind create cluster`; kind refuses a name in use.
KindCreate(cl, name, fail) ==
    IF fail = "create" \/ cl # "none" THEN [ok |-> FALSE, cluster |-> cl]
    ELSE [ok |-> TRUE, cluster |-> name]

\* DockerManager.Setup: work directory, staged files, then compose up (and
\* return) or the declared containers.
DockerSetup(ex, fail) ==
    IF ex.copyFiles > 0 /\ fail = "stage" THEN [ok |-> FALSE, env |-> "partial"]
    ELSE IF ex.compose
         THEN IF fail = "compose" THEN [ok |-> FALSE, env |-> "partial"]
              ELSE [ok |-> TRUE, env |-> "up"]
    ELSE IF ex.containers > 0 /\ fail \in {"build", "run"}
         THEN [ok |-> FALSE, env |-> "partial"]
    ELSE [ok |-> TRUE, env |-> "up"]

\* DockerManager.Teardown: compose down (its error is returned), then rm -f of
\* the containers and removal of the work directory, both ignoring errors.
DockerTeardown(ex, env, fail) ==
    IF ex.compose /\ fail = "down" THEN [ok |-> FALSE, env |-> env]
    ELSE [ok |-> TRUE, env |-> "none"]

(***************************************************************************)
(* internal/cli: the progress transitions.  Each loads the document,       *)
(* changes one entry and saves the whole document.                         *)
(***************************************************************************)
\* The entry of `name` in the document as loaded.
Loaded(state, doc, name) == Get(Load(state, doc).file.exercises, name)

\* Mutant of Transition: the saved document is stamped with version 2.
TransitionRestamping(state, doc, name, entry) ==
    LET l == Load(state, doc) IN
    IF ~l.ok THEN [ok |-> FALSE, disk |-> Disk(state, doc)]
    ELSE [ok |-> TRUE,
          disk |-> Save([version |-> 2, exercises |-> Put(l.file.exercises, name, entry)])]

\* Load, store the changed entry of `name`, save; a load error changes nothing.
Transition(state, doc, name, entry) ==
    LET l == Load(state, doc) IN
    IF ~l.ok THEN [ok |-> FALSE, disk |-> Disk(state, doc)]
    ELSE [ok |-> TRUE,
          disk |-> Save([l.file EXCEPT !.exercises = Put(@, name, entry)])]

\* Mutant of startedEntry: every start is treated as the first one.
startedEntryAlwaysFresh(entry, t) ==
    [entry EXCEPT !.status = "in_progress", !.startedAt = t,
                  !.hintsUsed = 0, !.resets = 0]

startedEntry(entry, t) ==
    LET e == IF entry.status = "" \/ entry.status = "not_started"
             THEN [entry EXCEPT !.startedAt = t, !.hintsUsed = 0, !.resets = 0]
             ELSE entry
    IN  [e EXCEPT !.status = "in_progress"]

markStarted(state, doc, name, t) ==
    Transition(state, doc, name, startedEntry(Loaded(state, doc, name), t))

(***************************************************************************)
(* gymctl start <exercise-name>                                            *)
(***************************************************************************)
\* The kubernetes branch of start: Exists, Delete if it exists, Create, apply
\* the manifests, wait for the conditions.
StartKubernetes(ex, name, noCluster, fail) ==
    IF ~ex.hasDecl THEN [res |-> "no_env", cluster |-> cluster]
    ELSE
    LET create == createClusterOf(ex, noCluster)
        del    == IF cluster # "none" THEN KindDelete(cluster, fail)
                  ELSE [ok |-> TRUE, cluster |-> cluster]
        cre    == KindCreate(del.cluster, name, fail)
        after  == IF create THEN cre.cluster ELSE cluster
    IN  IF create /\ fail = "exists" THEN [res |-> "exists_failed", cluster |-> cluster]
        ELSE IF create /\ ~del.ok THEN [res |-> "delete_failed", cluster |-> del.cluster]
        ELSE IF create /\ ~cre.ok THEN [res |-> "create_failed", cluster |-> cre.cluster]
        ELSE IF ex.manifests > 0 /\ fail = "apply"
             THEN [res |-> "apply_failed", cluster |-> after]
        ELSE IF ex.waits > 0 /\ fail = "wait"
             THEN [res |-> "wait_failed", cluster |-> after]
        ELSE [res |-> "ok", cluster |-> after]

StartRun(name, noCluster, fail) ==
    LET unchanged(res) == Outcome(res, Disk(fileState, fileDoc), current, cluster, dockerEnv) IN
    IF fail = "catalog" THEN unchanged("catalog_error")
    ELSE IF ~FindByName(tasks, name) THEN unchanged("not_found")
    ELSE
    LET ex   == Catalog[name]
        k8s  == StartKubernetes(ex, name, noCluster, fail)
        dock == DockerSetup(ex, fail)
        prov == CASE ex.envType = "kubernetes" ->
                        [res |-> k8s.res, cluster |-> k8s.cluster, denv |-> dockerEnv]
                  [] ex.envType = "docker" ->
                        IF ~ex.hasDecl
                        THEN [res |-> "no_env", cluster |-> cluster, denv |-> dockerEnv]
                        ELSE [res |-> IF dock.ok THEN "ok" ELSE "setup_failed",
                              cluster |-> cluster,
                              denv |-> [dockerEnv EXCEPT ![name] = dock.env]]
                  [] OTHER ->
                        [res |-> "unsupported_env", cluster |-> cluster, denv |-> dockerEnv]
        m    == markStarted(fileState, fileDoc, name, now)
    IN  IF prov.res # "ok"
        THEN Outcome(prov.res, Disk(fileState, fileDoc), current, prov.cluster, prov.denv)
        ELSE IF ~m.ok
        THEN Outcome("progress_error", m.disk, current, prov.cluster, prov.denv)
        \* writeCurrentExercise, then the files are copied into the work directory
        ELSE IF ex.hasDecl /\ ex.envType = "docker" /\ ex.copyFiles > 0 /\ fail = "copy"
        THEN Outcome("copy_failed", m.disk, name, prov.cluster, prov.denv)
        ELSE Outcome("ok", m.disk, name, prov.cluster, prov.denv)

(***************************************************************************)
(* gymctl check [exercise-name]                                            *)
(***************************************************************************)
\* Mutant of completedEntry: every hint used costs a point.
completedEntryPenalised(entry, points, t) ==
    [entry EXCEPT !.status = "completed", !.completedAt = t,
                  !.score = defaultPoints(points) - entry.hintsUsed]

completedEntry(entry, points, t) ==
    [entry EXCEPT !.status = "completed", !.completedAt = t,
                  !.score = defaultPoints(points)]

markCompleted(state, doc, name, points, t) ==
    Transition(state, doc, name,
               completedEntry(Loaded(state, doc, name), points, t))

\* The loop of checks.RunExerciseChecks from result i on: a failed result
\* clears the verdict.
RECURSIVE allPassedFrom(_, _, _)
allPassedFrom(results, i, verdict) ==
    IF i > Len(results) THEN verdict
    ELSE allPassedFrom(results, i + 1, IF ~results[i] THEN FALSE ELSE verdict)

\* Mutant of allPassed: the verdict is the result of the last check alone.
lastPassed(results) == Len(results) = 0 \/ results[Len(results)]

\* checks.RunExerciseChecks: one result per declared check; the verdict starts
\* true and is cleared by every failed result.
allPassed(results) == allPassedFrom(results, 1, TRUE)

\* The results of the checks are what the outside world makes them.
CheckResults(ex) == [1..ex.checks -> BOOLEAN]

\* Mutant of CheckRun: a progress document that cannot be updated is passed over.
CheckRunIgnoringProgress(arg, results, fail) ==
    LET unchanged(res) == Outcome(res, Disk(fileState, fileDoc), current, cluster, dockerEnv)
        r == ResolveName(arg, current)
    IN
    IF ~r.ok THEN unchanged("no_current")
    ELSE IF fail = "catalog" THEN unchanged("catalog_error")
    ELSE IF ~FindByName(tasks, r.name) THEN unchanged("not_found")
    ELSE
    LET m == markCompleted(fileState, fileDoc, r.name, Catalog[r.name].points, now) IN
        IF allPassed(results)
        THEN IF ~m.ok THEN unchanged("ok")
             ELSE Outcome("ok", m.disk, current, cluster, dockerEnv)
        ELSE unchanged("checks_failed")

CheckRun(arg, results, fail) ==
    LET unchanged(res) == Outcome(res, Disk(fileState, fileDoc), current, cluster, dockerEnv)
        r == ResolveName(arg, current)
    IN
    IF ~r.ok THEN unchanged("no_current")
    ELSE IF fail = "catalog" THEN unchanged("catalog_error")
    ELSE IF ~FindByName(tasks, r.name) THEN unchanged("not_found")
    ELSE
    LET m == markCompleted(fileState, fileDoc, r.name, Catalog[r.name].points, now) IN
        IF allPassed(results)
        THEN IF ~m.ok THEN unchanged("progress_error")
             ELSE Outcome("ok", m.disk, current, cluster, dockerEnv)
        ELSE unchanged("checks_failed")

(***************************************************************************)
(* gymctl hint [exercise-name] [--reveal-all]                              *)
(***************************************************************************)
\* The index after the last hint to show.
endIndexOf(startIndex, hints, revealAll) ==
    IF revealAll THEN hints ELSE startIndex + 1

hintedEntry(entry, endIndex) == [entry EXCEPT !.hintsUsed = endIndex]

\* Mutant of HintRun: a hint makes its exercise the current one.
HintRunSettingPointer(arg, revealAll, unreadable, fail) ==
    LET unchanged(res, n) ==
            [out |-> Outcome(res, Disk(fileState, fileDoc), current, cluster, dockerEnv),
             revealed |-> n]
        r == ResolveName(arg, current)
    IN
    IF ~r.ok THEN unchanged("no_current", 0)
    ELSE IF fail = "catalog" THEN unchanged("catalog_error", 0)
    ELSE IF ~FindByName(tasks, r.name) THEN unchanged("not_found", 0)
    ELSE
    LET l == Load(fileState, fileDoc)
        hints == Catalog[r.name].hints
        status == Get(l.file.exercises, r.name)
        startIndex == status.hintsUsed
        endIndex == endIndexOf(startIndex, hints, revealAll)
        file == [l.file EXCEPT !.exercises =
                    Put(@, r.name, hintedEntry(status, endIndex))]
    IN  IF ~l.ok THEN unchanged("progress_error", 0)
        ELSE IF startIndex >= hints THEN unchanged("no_more_hints", 0)
        ELSE IF unreadable \in (startIndex + 1)..endIndex
        THEN unchanged("hint_read_failed", unreadable - 1 - startIndex)
        ELSE [out |-> Outcome("ok", Save(file), r.name, cluster, dockerEnv),
              revealed |-> endIndex - startIndex]

\* unreadable: the number of a hint whose file cannot be read, 0 for none.
\* revealed: how many hints were printed before the command returned.
HintRun(arg, revealAll, unreadable, fail) ==
    LET unchanged(res, n) ==
            [out |-> Outcome(res, Disk(fileState, fileDoc), current, cluster, dockerEnv),
             revealed |-> n]
        r == ResolveName(arg, current)
    IN
    IF ~r.ok THEN unchanged("no_current", 0)
    ELSE IF fail = "catalog" THEN unchanged("catalog_error", 0)
    ELSE IF ~FindByName(tasks, r.name) THEN unchanged("not_found", 0)
    ELSE
    LET l == Load(fileState, fileDoc)
        hints == Catalog[r.name].hints
        status == Get(l.file.exercises, r.name)
        startIndex == status.hintsUsed
        endIndex == endIndexOf(startIndex, hints, revealAll)
        file == [l.file EXCEPT !.exercises =
                    Put(@, r.name, hintedEntry(status, endIndex))]
    IN  IF ~l.ok THEN unchanged("progress_error", 0)
        ELSE IF startIndex >= hints THEN unchanged("no_more_hints", 0)
        ELSE IF unreadable \in (startIndex + 1)..endIndex
        THEN unchanged("hint_read_failed", unreadable - 1 - startIndex)
        ELSE [out |-> Outcome("ok", Save(file), current, cluster, dockerEnv),
              revealed |-> endIndex - startIndex]

(***************************************************************************)
(* gymctl stop [exercise-name]                                             *)
(***************************************************************************)
\* Mutant of stoppedEntry: stopping forgets when the exercise was started.
stoppedEntryClearsStart(entry) ==
    [entry EXCEPT !.status = "stopped", !.startedAt = 0]

stoppedEntry(entry) == [entry EXCEPT !.status = "stopped"]

markStopped(state, doc, name) ==
    Transition(state, doc, name, stoppedEntry(Loaded(state, doc, name)))

\* Mutant of StopRun: the cluster is deleted only if the stopped exercise made it.
StopRunOwnCluster(arg, fail) ==
    LET unchanged(res) ==
            [out |-> Outcome(res, Disk(fileState, fileDoc), current, cluster, dockerEnv),
             warned |-> FALSE]
        r == ResolveName(arg, current)
    IN
    IF ~r.ok THEN unchanged("no_current")
    ELSE IF fail = "catalog" THEN unchanged("catalog_error")
    ELSE IF ~FindByName(tasks, r.name) THEN unchanged("not_found")
    ELSE
    LET ex   == Catalog[r.name]
        del  == KindDelete(cluster, fail)
        down == DockerTeardown(ex, dockerEnv[r.name], fail)
        m    == markStopped(fileState, fileDoc, r.name)
        env  == CASE ex.envType = "kubernetes" /\ createClusterOf(ex, FALSE) ->
                        IF cluster = r.name
                        THEN [cluster |-> del.cluster, denv |-> dockerEnv, warned |-> ~del.ok]
                        ELSE [cluster |-> cluster, denv |-> dockerEnv, warned |-> FALSE]
                  [] ex.envType = "docker" ->
                        [cluster |-> cluster,
                         denv |-> [dockerEnv EXCEPT ![r.name] = down.env],
                         warned |-> ~down.ok]
                  [] OTHER ->
                        [cluster |-> cluster, denv |-> dockerEnv, warned |-> FALSE]
    IN  IF ex.envType \notin {"kubernetes", "docker"} THEN unchanged("unsupported_env")
        ELSE IF ~ex.hasDecl THEN unchanged("no_env")
        ELSE IF ~m.ok
        THEN [out |-> Outcome("progress_error", m.disk, current, env.cluster, env.denv),
              warned |-> env.warned]
        ELSE [out |-> Outcome("ok", m.disk, current, env.cluster, env.denv),
              warned |-> env.warned]

\* warned: a failed cluster deletion or docker teardown is only reported.
StopRun(arg, fail) ==
    LET unchanged(res) ==
            [out |-> Outcome(res, Disk(fileState, fileDoc), current, cluster, dockerEnv),
             warned |-> FALSE]
        r == ResolveName(arg, current)
    IN
    IF ~r.ok THEN unchanged("no_current")
    ELSE IF fail = "catalog" THEN unchanged("catalog_error")
    ELSE IF ~FindByName(tasks, r.name) THEN unchanged("not_found")
    ELSE
    LET ex   == Catalog[r.name]
        del  == KindDelete(cluster, fail)
        down == DockerTeardown(ex, dockerEnv[r.name], fail)
        m    == markStopped(fileState, fileDoc, r.name)
        env  == CASE ex.envType = "kubernetes" /\ createClusterOf(ex, FALSE) ->
                        [cluster |-> del.cluster, denv |-> dockerEnv, warned |-> ~del.ok]
                  [] ex.envType = "docker" ->
                        [cluster |-> cluster,
                         denv |-> [dockerEnv EXCEPT ![r.name] = down.env],
                         warned |-> ~down.ok]
                  [] OTHER ->
                        [cluster |-> cluster, denv |-> dockerEnv, warned |-> FALSE]
    IN  IF ex.envType \notin {"kubernetes", "docker"} THEN unchanged("unsupported_env")
        ELSE IF ~ex.hasDecl THEN unchanged("no_env")
        ELSE IF ~m.ok
        THEN [out |-> Outcome("progress_error", m.disk, current, env.cluster, env.denv),
              warned |-> env.warned]
        ELSE [out |-> Outcome("ok", m.disk, current, env.cluster, env.denv),
              warned |-> env.warned]

(***************************************************************************)
(* gymctl reset [exercise-name]                                            *)
(***************************************************************************)
\* Mutant of resetEntry: a reset also gives the hints back.
resetEntryZeroHints(entry, t) ==
    [entry EXCEPT !.resets = @ + 1, !.status = "in_progress", !.startedAt = t,
                  !.hintsUsed = 0]

resetEntry(entry, t) ==
    [entry EXCEPT !.resets = @ + 1, !.status = "in_progress", !.startedAt = t]

markReset(state, doc, name, t) ==
    Transition(state, doc, name, resetEntry(Loaded(state, doc, name), t))

\* The kubernetes branch of reset: Delete with its error dropped, Create,
\* apply the manifests, wait for the conditions.
ResetKubernetes(ex, name, noCluster, fail) ==
    IF ~ex.hasDecl THEN [res |-> "no_env", cluster |-> cluster]
    ELSE
    LET create == createClusterOf(ex, noCluster)
        del    == KindDelete(cluster, fail)
        cre    == KindCreate(del.cluster, name, fail)
        after  == IF create THEN cre.cluster ELSE cluster
    IN  IF create /\ ~cre.ok THEN [res |-> "create_failed", cluster |-> cre.cluster]
        ELSE IF ex.manifests > 0 /\ fail = "apply"
             THEN [res |-> "apply_failed", cluster |-> after]
        ELSE IF ex.waits > 0 /\ fail = "wait"
             THEN [res |-> "wait_failed", cluster |-> after]
        ELSE [res |-> "ok", cluster |-> after]

\* The docker branch of reset: Teardown, then Setup.
ResetDocker(ex, name, fail) ==
    IF ~ex.hasDecl THEN [res |-> "no_env", denv |-> dockerEnv]
    ELSE
    LET down == DockerTeardown(ex, dockerEnv[name], fail)
        up   == DockerSetup(ex, fail)
    IN  IF ~down.ok
        THEN [res |-> "teardown_failed", denv |-> [dockerEnv EXCEPT ![name] = down.env]]
        ELSE [res |-> IF up.ok THEN "ok" ELSE "setup_failed",
              denv |-> [dockerEnv EXCEPT ![name] = up.env]]

ResetRun(arg, noCluster, fail) ==
    LET unchanged(res) == Outcome(res, Disk(fileState, fileDoc), current, cluster, dockerEnv)
        r == ResolveName(arg, current)
    IN
    IF ~r.ok THEN unchanged("no_current")
    ELSE IF fail = "catalog" THEN unchanged("catalog_error")
    ELSE IF ~FindByName(tasks, r.name) THEN unchanged("not_found")
    ELSE
    LET ex   == Catalog[r.name]
        k8s  == ResetKubernetes(ex, r.name, noCluster, fail)
        dock == ResetDocker(ex, r.name, fail)
        prov == CASE ex.envType = "kubernetes" ->
                        [res |-> k8s.res, cluster |-> k8s.cluster, denv |-> dockerEnv]
                  [] ex.envType = "docker" ->
                        [res |-> dock.res, cluster |-> cluster, denv |-> dock.denv]
                  [] OTHER ->
                        [res |-> "unsupported_env", cluster |-> cluster, denv |-> dockerEnv]
        m    == markReset(fileState, fileDoc, r.name, now)
    IN  IF prov.res # "ok"
        THEN Outcome(prov.res, Disk(fileState, fileDoc), current, prov.cluster, prov.denv)
        ELSE IF ~m.ok
        THEN Outcome("progress_error", m.disk, current, prov.cluster, prov.denv)
        ELSE Outcome("ok", m.disk, r.name, prov.cluster, prov.denv)

(***************************************************************************)
(* gymctl recover <exercise-name>                                          *)
(***************************************************************************)
recoveredEntry(entry) == [entry EXCEPT !.status = "not_started", !.hintsUsed = 0]

\* Teardown and Delete with their errors dropped, then the entry is put back
\* to not_started.  Load's error is dropped too: with a file that does not
\* parse the nil document is dereferenced and the command panics.
RecoverRun(name, fail) ==
    LET unchanged(res) == Outcome(res, Disk(fileState, fileDoc), current, cluster, dockerEnv) IN
    IF fail = "catalog" THEN unchanged("catalog_error")
    ELSE IF ~FindByName(tasks, name) THEN unchanged("not_found")
    ELSE
    LET ex   == Catalog[name]
        cl   == IF ex.envType = "kubernetes" /\ ex.hasDecl /\ ex.createCluster = "true"
                THEN KindDelete(cluster, fail).cluster ELSE cluster
        de   == IF ex.envType = "docker" /\ ex.hasDecl
                THEN [dockerEnv EXCEPT ![name] =
                        DockerTeardown(ex, dockerEnv[name], fail).env]
                ELSE dockerEnv
        m    == Transition(fileState, fileDoc, name,
                           recoveredEntry(Loaded(fileState, fileDoc, name)))
    IN  IF ~m.ok THEN Outcome("panic", m.disk, current, cl, de)
        ELSE Outcome("ok", m.disk, current, cl, de)

\* gymctl recover, without a name: a progress file that does not load is
\* replaced by a new empty one when the user agrees (or --force is given).
\* When the user declines, the nil document is dereferenced by the work
\* directory pass and the command panics.
RecoverAllRun(agreed) ==
    LET unchanged(res) == Outcome(res, Disk(fileState, fileDoc), current, cluster, dockerEnv)
        l == Load(fileState, fileDoc)
    IN  IF l.ok THEN unchanged("ok")
        ELSE IF agreed THEN Outcome("ok", Save(EmptyFile), current, cluster, dockerEnv)
        ELSE unchanged("panic")

\* What a user may type as the exercise name: the name of a definition or a
\* name no definition carries.  Commands with an optional name also take "":
\* they fall back to the current pointer.
ArgNames == tasks \cup {"ghost"}

\* A command ran: its outcome becomes the state.
Apply(op, name, o, revealed, warned, passed) ==
    /\ fileState' = o.disk.state
    /\ fileDoc' = o.disk.doc
    /\ current' = o.cur
    /\ cluster' = o.cluster
    /\ dockerEnv' = o.denv
    /\ last' = [op |-> op, name |-> name, res |-> o.res, revealed |-> revealed,
                 warned |-> warned, passed |-> passed]
    /\ UNCHANGED <<tasks, now>>
    /\ UNCHANGED unitVars

StartCmd ==
    \E name \in ArgNames :
        \E noCluster \in NoClusterFlags(name),
           fail \in Failures(name, {"exists", "delete", "create", "apply", "wait",
                                    "stage", "compose", "build", "run", "copy"}) :
            Apply("start", name, StartRun(name, noCluster, fail), 0, FALSE, FALSE)

\* The exercise a command with an optional argument ended up working on.
Target(arg) == IF arg # "" THEN arg ELSE current

CheckCmd ==
    \E arg \in ArgNames \cup {""}, fail \in {"none", "catalog"} :
        \E results \in IF Target(arg) \in tasks
                       THEN CheckResults(Catalog[Target(arg)]) ELSE {<<>>} :
            Apply("check", Target(arg), CheckRun(arg, results, fail), 0, FALSE,
                  \A i \in DOMAIN results : results[i])

HintCmd ==
    \E arg \in ArgNames \cup {""}, revealAll \in BOOLEAN, fail \in {"none", "catalog"} :
        \E unreadable \in 0..(IF Target(arg) \in tasks
                               THEN Catalog[Target(arg)].hints ELSE 0) :
            LET h == HintRun(arg, revealAll, unreadable, fail)
            IN  Apply("hint", Target(arg), h.out, h.revealed, FALSE, FALSE)

StopCmd ==
    \E arg \in ArgNames \cup {""} :
        \E fail \in Failures(Target(arg), {"delete", "down"}) :
            LET s == StopRun(arg, fail)
            IN  Apply("stop", Target(arg), s.out, 0, s.warned, FALSE)

\* The resets counter is unbounded in the program; the model stops at MaxResets.
ResetCmd ==
    \E arg \in ArgNames \cup {""} :
        \E noCluster \in NoClusterFlags(Target(arg)),
           fail \in Failures(Target(arg), {"delete", "create", "apply", "wait", "down",
                                           "stage", "compose", "build", "run"}) :
            /\ Loaded(fileState, fileDoc, Target(arg)).resets < MaxResets
            /\ Apply("reset", Target(arg), ResetRun(arg, noCluster, fail), 0, FALSE, FALSE)

RecoverCmd ==
    \E name \in ArgNames :
        \E fail \in Failures(name, {"delete", "down"}) :
            Apply("recover", name, RecoverRun(name, fail), 0, FALSE, FALSE)

RecoverAllCmd ==
    \E agreed \in BOOLEAN :
        Apply("recover_all", "", RecoverAllRun(agreed), 0, FALSE, FALSE)

\* Time passes between two commands; no command is the last one any more.
Tick ==
    /\ now < MaxTime
    /\ now' = now + 1
    /\ last' = [op |-> "none", name |-> "", res |-> "ok", revealed |-> 0,
                 warned |-> FALSE, passed |-> FALSE]
    /\ UNCHANGED <<tasks, fileState, fileDoc, current, cluster, dockerEnv>>
    /\ UNCHANGED unitVars

\* A component the specification at hand does not look into.
NotInView == [call |-> "none"]

(***************************************************************************)
(* The state before the first command: no progress file, no current        *)
(* pointer, no cluster, no docker environment.                             *)
(***************************************************************************)
Init ==
    /\ tasks \in Worlds
    /\ fileState = "missing"
    /\ fileDoc = EmptyFile
    /\ current = ""
    /\ cluster = "none"
    /\ dockerEnv = [n \in ExerciseNames |-> "none"]
    /\ now = 1
    /\ last = [op |-> "none", name |-> "", res |-> "ok", revealed |-> 0,
                warned |-> FALSE, passed |-> FALSE]
    /\ mgr = NotInView
    /\ kube = NotInView
    /\ eng = NotInView

Next ==
    \/ Tick
    \/ StartCmd
    \/ CheckCmd
    \/ HintCmd
    \/ StopCmd
    \/ ResetCmd
    \/ RecoverCmd

Spec == Init /\ [][Next]_vars

\* The lifecycle commands alone: no explicit recovery is ever run.
NextNoRecover ==
    \/ Tick
    \/ StartCmd
    \/ CheckCmd
    \/ HintCmd
    \/ StopCmd
    \/ ResetCmd

SpecNoRecover == Init /\ [][NextNoRecover]_vars

\* The progress file was damaged outside the program before the first command.
InitCorrupt ==
    /\ tasks \in Worlds
    /\ fileState = "corrupt"
    /\ fileDoc = EmptyFile
    /\ current = ""
    /\ cluster = "none"
    /\ dockerEnv = [n \in ExerciseNames |-> "none"]
    /\ now = 1
    /\ last = [op |-> "none", name |-> "", res |-> "ok", revealed |-> 0,
                warned |-> FALSE, passed |-> FALSE]
    /\ mgr = NotInView
    /\ kube = NotInView
    /\ eng = NotInView

NextCorrupt ==
    \/ Tick
    \/ StartCmd
    \/ CheckCmd
    \/ HintCmd
    \/ StopCmd
    \/ ResetCmd
    \/ RecoverCmd
    \/ RecoverAllCmd

SpecCorrupt == InitCorrupt /\ [][NextCorrupt]_vars

(***************************************************************************)
(* Two exercises of one backend, under start, stop and reset.              *)
(***************************************************************************)
InitPair ==
    \* Tasks directories with two exercises of the same backend.
    /\ tasks \in {{"kube-a", "kube-b"}, {"dock-a", "dock-b"}}
    /\ fileState = "missing"
    /\ fileDoc = EmptyFile
    /\ current = ""
    /\ cluster = "none"
    /\ dockerEnv = [n \in ExerciseNames |-> "none"]
    /\ now = 1
    /\ last = [op |-> "none", name |-> "", res |-> "ok", revealed |-> 0,
                warned |-> FALSE, passed |-> FALSE]
    /\ mgr = NotInView
    /\ kube = NotInView
    /\ eng = NotInView

NextPair ==
    \/ StartCmd
    \/ StopCmd
    \/ ResetCmd

SpecPair == InitPair /\ [][NextPair]_vars

(***************************************************************************)
(* gymctl status                                                           *)
(***************************************************************************)
\* Mutant of earnedPoints: a score counts whatever the status is.
RECURSIVE earnedPointsAnyStatus(_, _)
earnedPointsAnyStatus(entries, exercises) ==
    IF entries = {} THEN 0
    ELSE LET n == CHOOSE e \in entries : TRUE
             status == Get(exercises, n)
         IN  (IF status.score > 0 THEN status.score ELSE 0)
                + earnedPointsAnyStatus(entries \ {n}, exercises)

\* The loop of newStatusCmd over the catalog entries: earnedPoints.
RECURSIVE earnedPoints(_, _)
earnedPoints(entries, exercises) ==
    IF entries = {} THEN 0
    ELSE LET n == CHOOSE e \in entries : TRUE
             status == Get(exercises, n)
         IN  (IF status.status = "completed" /\ status.score > 0 THEN status.score ELSE 0)
                + earnedPoints(entries \ {n}, exercises)

\* The same loop: completedCount.
completedCount(entries, exercises) ==
    Cardinality({n \in entries : Get(exercises, n).status = "completed"})

\* gymctl status reads the catalog and the progress document and prints the
\* totals; it writes nothing.
StatusCmd ==
    \E fail \in {"none", "catalog"} :
        LET l == Load(fileState, fileDoc)
            res == IF fail = "catalog" THEN "catalog_error"
                   ELSE IF ~l.ok THEN "progress_error" ELSE "ok"
        IN  /\ last' = [op |-> "status", name |-> "", res |-> res, revealed |-> 0,
                         warned |-> FALSE, passed |-> FALSE]
            /\ eng' = IF res = "ok"
                      THEN [call |-> "status",
                            earnedPoints |-> earnedPoints(tasks, l.file.exercises),
                            completedCount |-> completedCount(tasks, l.file.exercises)]
                      ELSE [call |-> "status", earnedPoints |-> 0, completedCount |-> 0]
            /\ UNCHANGED <<tasks, fileState, fileDoc, current, cluster, dockerEnv, now>>
            /\ UNCHANGED <<mgr, kube>>

\* An exercise with points and one without, under the commands that change
\* a status and the status command, with the clock advancing.
InitScore ==
    /\ tasks = {"dock-b", "broken"}
    /\ fileState = "missing"
    /\ fileDoc = EmptyFile
    /\ current = ""
    /\ cluster = "none"
    /\ dockerEnv = [n \in ExerciseNames |-> "none"]
    /\ now = 1
    /\ last = [op |-> "none", name |-> "", res |-> "ok", revealed |-> 0,
                warned |-> FALSE, passed |-> FALSE]
    /\ mgr = NotInView
    /\ kube = NotInView
    /\ eng = NotInView

NextScore ==
    \/ StartCmd
    \/ CheckCmd
    \/ StopCmd
    \/ ResetCmd
    \/ StatusCmd
    \/ Tick

SpecScore == InitScore /\ [][NextScore]_vars

\* Two exercises under every command that changes a progress entry.
NextFrame ==
    \/ StartCmd
    \/ CheckCmd
    \/ HintCmd
    \/ StopCmd
    \/ ResetCmd

InitFrame ==
    \* Tasks directories with an exercise and a second one without hints,
    \* checks or environment declaration.
    /\ tasks \in {{"dock-a", "broken"}, {"kube-b", "broken"}}
    /\ fileState = "missing"
    /\ fileDoc = EmptyFile
    /\ current = ""
    /\ cluster = "none"
    /\ dockerEnv = [n \in ExerciseNames |-> "none"]
    /\ now = 1
    /\ last = [op |-> "none", name |-> "", res |-> "ok", revealed |-> 0,
                warned |-> FALSE, passed |-> FALSE]
    /\ mgr = NotInView
    /\ kube = NotInView
    /\ eng = NotInView

SpecFrame == InitFrame /\ [][NextFrame]_vars

(***************************************************************************)
(* internal/environment: DockerManager, one Setup or Teardown call at a    *)
(* time on one DockerSpec, every external step on record.                  *)
(***************************************************************************)
\* scenario.DockerSpec: composeFile set or not, containers, number of
\* copyFiles.  spec.Containers are the declared containers, in declaration
\* order; each has an image, a build context, or (wrongly) neither.
DockerSpecs ==
    [compose : BOOLEAN,
     containers : UNION {[1..n -> {"image", "build", "none"}] : n \in 0..MaxContainers},
     copyFiles : 0..MaxCopyFiles]

\* One step of a call: an operation on the i-th declared item (0 when the
\* operation has no item); a run step carries the image it starts.
Step(op, i, image) == [op |-> op, i |-> i, image |-> image]

\* The image a container is run from: <name>:latest when it is built.
imageOf(kind) ==
    CASE kind = "build" -> "name:latest"
      [] kind = "image" -> "declared"
      [] OTHER -> ""

\* The steps of the copyFiles loop from item i on.
RECURSIVE CopySteps(_, _)
CopySteps(spec, i) ==
    IF i > spec.copyFiles THEN <<>>
    ELSE <<Step("copy", i, "")>> \o CopySteps(spec, i + 1)

\* The steps of the containers loop from container i on: docker build when a
\* build context is declared, the missing-image error, docker run.
RECURSIVE ContainerSteps(_, _)
ContainerSteps(spec, i) ==
    IF i > Len(spec.containers) THEN <<>>
    ELSE LET kind == spec.containers[i] IN
         (IF kind = "build" THEN <<Step("build", i, imageOf(kind))>> ELSE <<>>)
            \o (IF imageOf(kind) = "" THEN <<Step("missing", i, "")>>
                ELSE <<Step("run", i, imageOf(kind))>>)
            \o ContainerSteps(spec, i + 1)

\* Setup, as the steps it goes through when none fails: the work directory,
\* the files, then compose up (and return) or else the containers.
SetupPlan(spec) ==
    <<Step("mkdir", 0, "")>>
        \o CopySteps(spec, 1)
        \o (IF spec.compose THEN <<Step("up", 0, "")>> ELSE ContainerSteps(spec, 1))

\* The steps of the docker rm -f loop from container i on.
RECURSIVE RemoveSteps(_, _)
RemoveSteps(spec, i) ==
    IF i > Len(spec.containers) THEN <<>>
    ELSE <<Step("rm", i, "")>> \o RemoveSteps(spec, i + 1)

\* Teardown, as the steps it goes through when none fails: compose down
\* when a compose file is declared, docker rm -f per container, RemoveAll.
TeardownPlan(spec) ==
    (IF spec.compose THEN <<Step("down", 0, "")>> ELSE <<>>)
        \o RemoveSteps(spec, 1)
        \o <<Step("rmdir", 0, "")>>

\* The elements of a sequence.
Range(seq) == {seq[i] : i \in DOMAIN seq}

\* The steps whose outcome the outside decides: the docker, kind and kubectl
\* calls and the file copies and removals.
ToolSteps(plan) == {s \in Range(plan) : s.op \notin {"mkdir", "missing", "mark"}}

\* What the outside may report in one call: the steps that fail if taken.
Reports(plan) == {b \in SUBSET ToolSteps(plan) : Cardinality(b) <= MaxReports}

\* The resources of the environment: the work directory, the files staged
\* in it, the compose project, the containers that exist, cluster jerry-gym.
NoResources ==
    [workDir |-> FALSE, staged |-> {}, stack |-> FALSE, running |-> {},
     cluster |-> FALSE]

\* Whether a step fails: the outside says so, the image is missing, docker
\* run meets a container of that name, or kind create meets the cluster.
StepFails(s, res, bad) ==
    \/ s \in bad
    \/ s.op = "missing"
    \/ s.op = "run" /\ s.i \in res.running
    \/ s.op = "create" /\ res.cluster

\* What a step that succeeded leaves behind.
Effect(s, res) ==
    CASE s.op = "mkdir" -> [res EXCEPT !.workDir = TRUE]
      [] s.op = "copy"  -> [res EXCEPT !.staged = @ \cup {s.i}]
      [] s.op = "up"    -> [res EXCEPT !.stack = TRUE]
      [] s.op = "run"   -> [res EXCEPT !.running = @ \cup {s.i}]
      [] s.op = "down"  -> [res EXCEPT !.stack = FALSE]
      [] s.op = "rm"    -> [res EXCEPT !.running = @ \ {s.i}]
      [] s.op = "rmdir" -> [res EXCEPT !.workDir = FALSE, !.staged = {}]
      [] s.op = "delete" -> [res EXCEPT !.cluster = FALSE]
      [] s.op = "create" -> [res EXCEPT !.cluster = TRUE]
      [] OTHER -> res

\* Mutant of SetupReturnsOn: a failed docker run is passed over.
SetupReturnsOnAllButRun(s) == s.op # "run"

\* The steps whose error Setup returns: every one of them.
SetupReturnsOn(s) == TRUE

\* The steps whose error Teardown returns: compose down alone.
TeardownReturnsOn(s) == s.op = "down"

\* A call goes through its plan from step k on; it returns at the first
\* failed step named in `fatal`, and nil at the end.
RECURSIVE RunPlan(_, _, _, _, _, _)
RunPlan(plan, k, fatal, res, trace, bad) ==
    IF k > Len(plan) THEN [res |-> res, trace |-> trace, ret |-> "nil"]
    ELSE LET s == plan[k]
             failed == StepFails(s, res, bad)
         IN  IF failed /\ s \in fatal
             THEN [res |-> res, trace |-> Append(trace, s), ret |-> "error"]
             ELSE RunPlan(plan, k + 1, fatal,
                          IF failed THEN res ELSE Effect(s, res),
                          Append(trace, s), bad)

\* DockerManager.Setup
Setup(spec, res, bad) ==
    RunPlan(SetupPlan(spec), 1,
            {s \in Range(SetupPlan(spec)) : SetupReturnsOn(s)}, res, <<>>, bad)

\* DockerManager.Teardown
Teardown(spec, res, bad) ==
    RunPlan(TeardownPlan(spec), 1,
            {s \in Range(TeardownPlan(spec)) : TeardownReturnsOn(s)}, res, <<>>, bad)

\* A call was made: what it did and returned is on record, with the
\* resources it found and what the outside reported.
Called(call, r, bad) ==
    /\ mgr' = [spec |-> mgr.spec, res |-> r.res, call |-> call,
               found |-> mgr.res, reported |-> bad, trace |-> r.trace, ret |-> r.ret]
    /\ UNCHANGED cmdVars
    /\ UNCHANGED <<kube, eng>>

SetupCall ==
    \E bad \in Reports(SetupPlan(mgr.spec)) :
        Called("setup", Setup(mgr.spec, mgr.res, bad), bad)

TeardownCall ==
    \E bad \in Reports(TeardownPlan(mgr.spec)) :
        Called("teardown", Teardown(mgr.spec, mgr.res, bad), bad)

\* A manager for some declaration, nothing set up yet.
InitDocker ==
    /\ tasks = {"dock-a"}
    /\ fileState = "missing"
    /\ fileDoc = EmptyFile
    /\ current = ""
    /\ cluster = "none"
    /\ dockerEnv = [n \in ExerciseNames |-> "none"]
    /\ now = 1
    /\ last = [op |-> "none", name |-> "", res |-> "ok", revealed |-> 0,
                warned |-> FALSE, passed |-> FALSE]
    /\ mgr \in [spec : DockerSpecs, res : {NoResources}, call : {"none"},
                found : {NoResources}, reported : {{}}, trace : {<<>>},
                ret : {"nil"}]
    /\ kube = NotInView
    /\ eng = NotInView

NextDocker ==
    \/ SetupCall
    \/ TeardownCall

SpecDocker == InitDocker /\ [][NextDocker]_vars

(***************************************************************************)
(* The kubernetes branch of start and reset, one command at a time, every  *)
(* kind and kubectl call on record, down to the progress transition.       *)
(***************************************************************************)
\* The steps of `op` on the items i..n of a list, in declaration order.
RECURSIVE ItemSteps(_, _, _)
ItemSteps(op, i, n) ==
    IF i > n THEN <<>> ELSE <<Step(op, i, "")>> \o ItemSteps(op, i + 1, n)

\* After the cluster: kubectl apply per manifest, kubectl wait per condition,
\* then markStarted / markReset.
AfterCluster(spec) ==
    ItemSteps("apply", 1, spec.manifests)
        \o ItemSteps("wait", 1, spec.waits)
        \o <<Step("mark", 0, "")>>

\* start: with createCluster, Exists, Delete when it exists, Create.
StartPlan(spec, createCluster, exists) ==
    (IF createCluster
     THEN <<Step("exists", 0, "")>>
            \o (IF exists THEN <<Step("delete", 0, "")>> ELSE <<>>)
            \o <<Step("create", 0, "")>>
     ELSE <<>>)
        \o AfterCluster(spec)

\* reset: with createCluster, Delete, Create.
ResetPlan(spec, createCluster) ==
    (IF createCluster THEN <<Step("delete", 0, ""), Step("create", 0, "")>> ELSE <<>>)
        \o AfterCluster(spec)

\* The steps whose error start returns: every one of them.
StartReturnsOn(s) == TRUE

\* The steps whose error reset returns: all but Delete (`_ = manager.Delete`).
ResetReturnsOn(s) == s.op # "delete"

\* The kubernetes branch of start, from the cluster as found.
StartProvisioning(spec, createCluster, res, bad) ==
    LET plan == StartPlan(spec, createCluster, res.cluster)
    IN  RunPlan(plan, 1, {s \in Range(plan) : StartReturnsOn(s)}, res, <<>>, bad)

\* The kubernetes branch of reset, from the cluster as found.
ResetProvisioning(spec, createCluster, res, bad) ==
    LET plan == ResetPlan(spec, createCluster)
    IN  RunPlan(plan, 1, {s \in Range(plan) : ResetReturnsOn(s)}, res, <<>>, bad)

\* A command ran its kubernetes branch: what it did is on record.
Provisioned(call, createCluster, r, bad) ==
    /\ kube' = [spec |-> kube.spec, res |-> r.res, call |-> call,
                createCluster |-> createCluster, found |-> kube.res,
                reported |-> bad, trace |-> r.trace, ret |-> r.ret]
    /\ UNCHANGED cmdVars
    /\ UNCHANGED <<mgr, eng>>

StartProvisionCmd ==
    \E createCluster \in BOOLEAN :
        \E bad \in Reports(StartPlan(kube.spec, createCluster, kube.res.cluster)) :
            Provisioned("start", createCluster,
                        StartProvisioning(kube.spec, createCluster, kube.res, bad), bad)

ResetProvisionCmd ==
    \E createCluster \in BOOLEAN :
        \E bad \in Reports(ResetPlan(kube.spec, createCluster)) :
            Provisioned("reset", createCluster,
                        ResetProvisioning(kube.spec, createCluster, kube.res, bad), bad)

\* A cluster exercise with some declaration; the cluster may be there already.
InitKube ==
    /\ tasks = {"kube-a"}
    /\ fileState = "missing"
    /\ fileDoc = EmptyFile
    /\ current = ""
    /\ cluster = "none"
    /\ dockerEnv = [n \in ExerciseNames |-> "none"]
    /\ now = 1
    /\ last = [op |-> "none", name |-> "", res |-> "ok", revealed |-> 0,
                warned |-> FALSE, passed |-> FALSE]
    /\ mgr = NotInView
    \* scenario.KubernetesSpec: the numbers of setupManifests and waitFor items.
    /\ kube \in [spec : [manifests : 0..MaxManifests, waits : 0..MaxWaits],
                 res : {NoResources, [NoResources EXCEPT !.cluster = TRUE]},
                 call : {"none"}, createCluster : {FALSE}, found : {NoResources},
                 reported : {{}}, trace : {<<>>}, ret : {"nil"}]
    /\ eng = NotInView

NextKube ==
    \/ StartProvisionCmd
    \/ ResetProvisionCmd

SpecKube == InitKube /\ [][NextKube]_vars

(***************************************************************************)
(* internal/checks: the check engine, one RunExerciseChecks call on one    *)
(* exercise; what each check finds in the environment comes from outside.  *)
(***************************************************************************)
\* The kinds runCheck dispatches before it looks at the environment type.
AgnosticKinds == {"script", "http", "file"}

\* The kinds of the kubernetes switch and of the docker switch.
KubernetesKinds == {"jsonpath", "condition", "resourceExists", "podLogs", "exec"}
DockerKinds == {"docker-image", "docker-container", "docker-logs", "dockerfile", "exec"}

\* Spec.Checks: the declared checks, in declaration order.  A check is read
\* by the dispatch as Name (may be empty) and Type; the kinds declared are
\* one agnostic, one per backend, one unknown.
CheckLists ==
    UNION {[1..n -> [name : {"", "a", "b"},
                     kind : {"script", "condition", "dockerfile", "bogus"}]] :
           n \in 0..MaxChecks}

\* Spec.Environment as the dispatch reads it: Type, and whether Kubernetes is set.
EngineEnvironments ==
    {[envType |-> "docker", hasKubernetes |-> FALSE],
     [envType |-> "kubernetes", hasKubernetes |-> TRUE],
     [envType |-> "kubernetes", hasKubernetes |-> FALSE],
     [envType |-> "other", hasKubernetes |-> FALSE]}

\* checks.Result; the message is the format string and its argument.
Result(name, passed, message) == [name |-> name, passed |-> passed, message |-> message]

\* One of the run*Check functions: Result{Name: check.Name}, passed as found.
runKind(check, found) ==
    Result(check.name, found, IF found THEN <<>> ELSE <<"not satisfied: ", check.kind>>)

\* Mutant of runCheck: a kind of the other backend is run all the same.
runCheckAnyBackend(exercise, check, found) ==
    LET own == Result(IF check.name = "" THEN check.kind ELSE check.name, FALSE, <<>>) IN
    IF check.kind \in AgnosticKinds \cup KubernetesKinds \cup DockerKinds
    THEN runKind(check, found)
    ELSE [own EXCEPT !.message = <<"unsupported check type: ", check.kind>>]

\* checks.runCheck
runCheck(exercise, check, found) ==
    LET own == Result(IF check.name = "" THEN check.kind ELSE check.name, FALSE, <<>>) IN
    IF check.kind \in AgnosticKinds THEN runKind(check, found)
    ELSE CASE exercise.envType = "kubernetes" ->
                IF ~exercise.hasKubernetes
                THEN [own EXCEPT !.message = <<"missing kubernetes config">>]
                ELSE IF check.kind \in KubernetesKinds THEN runKind(check, found)
                ELSE [own EXCEPT !.message = <<"unsupported check type: ", check.kind>>]
           [] exercise.envType = "docker" ->
                IF check.kind \in DockerKinds THEN runKind(check, found)
                ELSE [own EXCEPT !.message = <<"unsupported check type: ", check.kind>>]
           [] OTHER ->
                [own EXCEPT !.message = <<"unsupported environment for checks">>]

\* The loop of RunExerciseChecks from check i on: the result is appended,
\* a failed result clears the verdict.
RECURSIVE ChecksFrom(_, _, _, _, _, _)
ChecksFrom(exercise, checks, found, i, results, verdict) ==
    IF i > Len(checks) THEN [results |-> results, allPassed |-> verdict]
    ELSE LET result == runCheck(exercise, checks[i], found[i])
         IN  ChecksFrom(exercise, checks, found, i + 1, Append(results, result),
                        IF ~result.passed THEN FALSE ELSE verdict)

\* checks.RunExerciseChecks
RunExerciseChecks(exercise, checks, found) ==
    ChecksFrom(exercise, checks, found, 1, <<>>, TRUE)

RunChecksCall ==
    /\ eng.call \in {"none", "checks"}
    /\ \E found \in [DOMAIN eng.checks -> BOOLEAN] :
          LET r == RunExerciseChecks(eng.exercise, eng.checks, found)
          IN  eng' = [eng EXCEPT !.call = "checks", !.found = found,
                                 !.results = r.results, !.allPassed = r.allPassed]
    /\ UNCHANGED cmdVars
    /\ UNCHANGED <<mgr, kube>>

\* An exercise with some checks; nothing evaluated yet.
InitEngine ==
    /\ tasks = {"kube-a"}
    /\ fileState = "missing"
    /\ fileDoc = EmptyFile
    /\ current = ""
    /\ cluster = "none"
    /\ dockerEnv = [n \in ExerciseNames |-> "none"]
    /\ now = 1
    /\ last = [op |-> "none", name |-> "", res |-> "ok", revealed |-> 0,
                warned |-> FALSE, passed |-> FALSE]
    /\ mgr = NotInView
    /\ kube = NotInView
    /\ eng \in [exercise : EngineEnvironments, checks : CheckLists, call : {"none"},
                found : {<<>>}, results : {<<>>}, allPassed : {TRUE}]

NextEngine == RunChecksCall

SpecEngine == InitEngine /\ [][NextEngine]_vars

(***************************************************************************)
(* internal/checks: the checks that run a process (runScriptCheck,         *)
(* runDockerExecCheck, runKubernetesExecCheck); how the process ends and   *)
(* what it prints come from outside.                                       *)
(***************************************************************************)
\* The assertions of scenario.ExpectOutput, in the order they are evaluated.
Assertions == {"contains", "notContains", "regex"}

\* scenario.Check as the process checks read it.  runnable: the script, or
\* the container (resource) and the command, are given.  expectExitCode: nil,
\* or a pointer to the expected code.  expectOutput: nil, or the three
\* strings, an empty one being an assertion that is not declared; a regex
\* compiles or does not.
ProcessChecks ==
    [kind : {"script", "docker-exec", "kubernetes-exec"}, runnable : BOOLEAN,
     expectExitCode :
         {[declared |-> FALSE, code |-> 0]}
         \cup [declared : {TRUE}, code : 0..MaxExitCode],
     expectOutput :
         {[declared |-> FALSE, contains |-> FALSE, notContains |-> FALSE,
           regex |-> ""]}
         \cup [declared : {TRUE}, contains : BOOLEAN, notContains : BOOLEAN,
               regex : {"", "valid", "invalid"}]]

NoRun == [exited |-> FALSE, code |-> 0, holds |-> {}]

\* What runner.Run returns: the process exited with a code (-1 when killed by
\* a signal) and its output satisfies some of the assertions, or it could not
\* be run at all and the error is not an exec.ExitError.
ProcessRuns ==
    {NoRun} \cup [exited : {TRUE}, code : (-1)..MaxExitCode, holds : SUBSET Assertions]

NoResult == [passed |-> FALSE, message |-> "", evaluated |-> {}]

\* checks.checkExpectOutput; evaluated is the set of assertions it looked at.
checkExpectOutput(run, expect) ==
    LET fail(message, evaluated) ==
            [passed |-> FALSE, message |-> message, evaluated |-> evaluated]
        c == IF expect.contains THEN {"contains"} ELSE {}
        n == IF expect.notContains THEN {"notContains"} ELSE {}
        r == IF expect.regex # "" THEN {"regex"} ELSE {}
    IN
    IF expect.contains /\ "contains" \notin run.holds
    THEN fail("output does not contain", c)
    ELSE IF expect.notContains /\ "notContains" \notin run.holds
    THEN fail("output contains", c \cup n)
    ELSE IF expect.regex = "invalid"
    THEN fail("invalid regex", c \cup n \cup r)
    ELSE IF expect.regex = "valid" /\ "regex" \notin run.holds
    THEN fail("output does not match regex", c \cup n \cup r)
    ELSE [passed |-> TRUE, message |-> "", evaluated |-> c \cup n \cup r]

\* Mutant of exitGate: any exit other than 0 fails, whatever is expected.
exitGateZeroOnly(expect, run) ==
    IF ~run.exited \/ run.code # 0 THEN "error"
    ELSE IF expect.declared /\ expect.code # 0 THEN "expected exit code" ELSE ""

\* The exit-code block of the three functions: "" when the check goes on.
exitGate(expect, run) ==
    LET err == ~run.exited \/ run.code # 0 IN
    IF expect.declared
    THEN IF err /\ ~run.exited THEN "error"
         ELSE LET exitCode == IF err THEN run.code ELSE 0
              IN  IF exitCode # expect.code THEN "expected exit code" ELSE ""
    ELSE IF err THEN "error" ELSE ""

\* checks.runScriptCheck, runDockerExecCheck, runKubernetesExecCheck
runProcessCheck(check, run) ==
    IF ~check.runnable THEN [NoResult EXCEPT !.message = "missing"]
    ELSE LET gate == exitGate(check.expectExitCode, run) IN
         IF gate # "" THEN [NoResult EXCEPT !.message = gate]
         ELSE IF check.expectOutput.declared
         THEN checkExpectOutput(run, check.expectOutput)
         ELSE [NoResult EXCEPT !.passed = TRUE]

ProcessCheckCall ==
    /\ eng.call \in {"none", "process"}
    /\ \E run \in IF eng.check.runnable THEN ProcessRuns ELSE {NoRun} :
          eng' = [eng EXCEPT !.call = "process", !.run = run,
                             !.result = runProcessCheck(eng.check, run)]
    /\ UNCHANGED cmdVars
    /\ UNCHANGED <<mgr, kube>>

\* One check that runs a process; not evaluated yet.
InitProcess ==
    /\ tasks = {"dock-a"}
    /\ fileState = "missing"
    /\ fileDoc = EmptyFile
    /\ current = ""
    /\ cluster = "none"
    /\ dockerEnv = [n \in ExerciseNames |-> "none"]
    /\ now = 1
    /\ last = [op |-> "none", name |-> "", res |-> "ok", revealed |-> 0,
                warned |-> FALSE, passed |-> FALSE]
    /\ mgr = NotInView
    /\ kube = NotInView
    /\ eng \in [check : ProcessChecks, call : {"none"}, run : {NoRun}, result : {NoResult}]

NextProcess == ProcessCheckCall

SpecProcess == InitProcess /\ [][NextProcess]_vars

(***************************************************************************)
(* internal/checks: the comparison algebra (compareValue, compareOrdered). *)
(* Strings are sequences of one-character strings.                         *)
(***************************************************************************)
Digits == <<"0", "1", "2", "3", "4", "5", "6", "7", "8", "9">>

DigitChars == {Digits[i] : i \in DOMAIN Digits}

DigitValue(c) == (CHOOSE i \in DOMAIN Digits : Digits[i] = c) - 1

\* The value of a sequence of digits, most significant first.
RECURSIVE DigitsValue(_)
DigitsValue(ds) ==
    IF ds = <<>> THEN 0
    ELSE 10 * DigitsValue(SubSeq(ds, 1, Len(ds) - 1)) + DigitValue(ds[Len(ds)])

RECURSIVE Pow10(_)
Pow10(n) == IF n = 0 THEN 1 ELSE 10 * Pow10(n - 1)

\* The decimal digits of a natural number, and fmt's %d of an integer.
RECURSIVE NatDigits(_)
NatDigits(n) ==
    IF n < 10 THEN <<Digits[n + 1]>> ELSE Append(NatDigits(n \div 10), Digits[(n % 10) + 1])

FormatInt(n) == IF n < 0 THEN <<"-">> \o NatDigits(-n) ELSE NatDigits(n)

\* A decimal literal: an optional sign, digits with at most one point and
\* at least one digit; the value is num / den.  This is the part of the
\* grammar of strconv.ParseFloat that the inputs use.
ParseDecimal(s) ==
    LET signed == s # <<>> /\ s[1] \in {"-", "+"}
        body == IF signed THEN Tail(s) ELSE s
        dots == {i \in DOMAIN body : body[i] = "."}
        ok == /\ \A i \in DOMAIN body : body[i] \in DigitChars \cup {"."}
              /\ Cardinality(dots) <= 1
              /\ \E i \in DOMAIN body : body[i] \in DigitChars
        ds == SelectSeq(body, LAMBDA c : c \in DigitChars)
        scale == IF dots = {} THEN 0 ELSE Len(body) - (CHOOSE i \in dots : TRUE)
        mag == DigitsValue(ds)
    IN  IF ok THEN [ok |-> TRUE, num |-> IF signed /\ s[1] = "-" THEN -mag ELSE mag,
                    den |-> Pow10(scale)]
        ELSE [ok |-> FALSE, num |-> 0, den |-> 1]

\* strconv.ParseFloat(s, 64)
ParseFloat(s) == ParseDecimal(s)

\* The suffixes of resource.ParseQuantity that the inputs use, as num / den.
SuffixFactor(suffix) ==
    CASE suffix = <<>> -> [num |-> 1, den |-> 1]
      [] suffix = <<"m">> -> [num |-> 1, den |-> 1000]
      [] suffix = <<"k">> -> [num |-> 1000, den |-> 1]
      [] suffix = <<"K", "i">> -> [num |-> 1024, den |-> 1]

\* resource.ParseQuantity: a decimal literal followed by a suffix.
ParseQuantity(s) ==
    LET numChars == DigitChars \cup {".", "-", "+"}
        n == CHOOSE k \in 0..Len(s) :
                /\ \A i \in 1..k : s[i] \in numChars
                /\ k = Len(s) \/ s[k + 1] \notin numChars
        d == ParseDecimal(SubSeq(s, 1, n))
        suffix == SubSeq(s, n + 1, Len(s))
    IN  IF d.ok /\ suffix \in {<<>>, <<"m">>, <<"k">>, <<"K", "i">>}
        THEN [ok |-> TRUE, num |-> d.num * SuffixFactor(suffix).num,
              den |-> d.den * SuffixFactor(suffix).den]
        ELSE [ok |-> FALSE, num |-> 0, den |-> 1]

\* The sign of a - b for two parsed values (float64 comparison, Quantity.Cmp).
Cmp(a, b) ==
    LET l == a.num * b.den
        r == b.num * a.den
    IN  IF l > r THEN 1 ELSE IF l < r THEN -1 ELSE 0

\* strings.Contains
Contains(s, sub) ==
    \E i \in 0..(Len(s) - Len(sub)) : SubSeq(s, i + 1, i + Len(sub)) = sub

\* regexp.MatchString for patterns made of literal characters and ".": an
\* unbalanced "(" does not compile; the match is not anchored.
RegexCompiles(pattern) == \A i \in DOMAIN pattern : pattern[i] # "("

RegexMatches(pattern, s) ==
    \E i \in 0..(Len(s) - Len(pattern)) :
        \A j \in DOMAIN pattern : pattern[j] = "." \/ pattern[j] = s[i + j]

\* fmt.Sprintf("%v", expected), "" for nil.
Sprint(expected) ==
    CASE expected.kind = "nil" -> <<>>
      [] expected.kind = "string" -> expected.str
      [] expected.kind = "int" -> FormatInt(expected.int)

Verdict(passed, message) == [passed |-> passed, message |-> message]

\* Mutant of compareOrdered: the relations are not strict.
compareOrderedOrEqual(actual, expected, operator, valueType) ==
    LET parse(s) == IF valueType = "number" THEN ParseFloat(s) ELSE ParseQuantity(s)
        a == parse(actual)
        e == parse(expected)
    IN
    IF valueType \notin {"number", "quantity"}
    THEN Verdict(FALSE, <<"valueType required for ordered comparison">>)
    ELSE IF ~a.ok THEN Verdict(FALSE, <<"invalid ", valueType>>)
    ELSE IF ~e.ok THEN Verdict(FALSE, <<"invalid expected ", valueType>>)
    ELSE IF operator = "greaterThan"
    THEN IF Cmp(a, e) >= 0 THEN Verdict(TRUE, <<>>) ELSE Verdict(FALSE, <<"expected >">>)
    ELSE IF Cmp(a, e) <= 0 THEN Verdict(TRUE, <<>>) ELSE Verdict(FALSE, <<"expected <">>)

\* checks.compareOrdered
compareOrdered(actual, expected, operator, valueType) ==
    LET parse(s) == IF valueType = "number" THEN ParseFloat(s) ELSE ParseQuantity(s)
        a == parse(actual)
        e == parse(expected)
    IN
    IF valueType \notin {"number", "quantity"}
    THEN Verdict(FALSE, <<"valueType required for ordered comparison">>)
    ELSE IF ~a.ok THEN Verdict(FALSE, <<"invalid ", valueType>>)
    ELSE IF ~e.ok THEN Verdict(FALSE, <<"invalid expected ", valueType>>)
    ELSE IF operator = "greaterThan"
    THEN IF Cmp(a, e) > 0 THEN Verdict(TRUE, <<>>) ELSE Verdict(FALSE, <<"expected >">>)
    ELSE IF Cmp(a, e) < 0 THEN Verdict(TRUE, <<>>) ELSE Verdict(FALSE, <<"expected <">>)

\* checks.compareValue
compareValue(actual, operator, expected, valueType) ==
    LET op == IF operator = "" THEN "equals" ELSE operator
        stringExpected == Sprint(expected)
    IN
    IF op = "exists"
    THEN IF actual # <<>> THEN Verdict(TRUE, <<>>) ELSE Verdict(FALSE, <<"value not found">>)
    ELSE CASE op = "equals" ->
                IF actual = stringExpected THEN Verdict(TRUE, <<>>)
                ELSE Verdict(FALSE, <<"expected">>)
           [] op = "notEquals" ->
                IF actual # stringExpected THEN Verdict(TRUE, <<>>)
                ELSE Verdict(FALSE, <<"expected not">>)
           [] op = "contains" ->
                IF Contains(actual, stringExpected) THEN Verdict(TRUE, <<>>)
                ELSE Verdict(FALSE, <<"expected contains">>)
           [] op = "regex" ->
                IF ~RegexCompiles(stringExpected) THEN Verdict(FALSE, <<"invalid regex">>)
                ELSE IF RegexMatches(stringExpected, actual) THEN Verdict(TRUE, <<>>)
                ELSE Verdict(FALSE, <<"expected to match">>)
           [] op \in {"greaterThan", "lessThan"} ->
                compareOrdered(actual, stringExpected, op, valueType)
           [] OTHER -> Verdict(FALSE, <<"unsupported operator: ", op>>)

\* The operators of compareValue's switch, the empty one, and one it does not know.
Operators ==
    {"", "exists", "equals", "notEquals", "contains", "regex", "greaterThan",
     "lessThan", "bogus"}

\* Observed and expected strings: numbers, quantities and others.
Values ==
    {<<>>, <<"5">>, <<"5", ".", "0">>, <<"1", "0">>, <<"-", "1">>, <<"x">>, <<"(">>,
     <<"5", "0", "0", "0", "m">>, <<"2", "k">>, <<"2", "K", "i">>}

CompareCall ==
    /\ eng.call = "none"
    /\ eng' = [eng EXCEPT !.call = "compare",
                          !.result = [op \in Operators |->
                                        compareValue(eng.actual, op, eng.expected,
                                                     eng.valueType)]]
    /\ UNCHANGED cmdVars
    /\ UNCHANGED <<mgr, kube>>

\* An observed value, an expected value and a value type; nothing compared yet.
InitCompare ==
    /\ tasks = {"kube-a"}
    /\ fileState = "missing"
    /\ fileDoc = EmptyFile
    /\ current = ""
    /\ cluster = "none"
    /\ dockerEnv = [n \in ExerciseNames |-> "none"]
    /\ now = 1
    /\ last = [op |-> "none", name |-> "", res |-> "ok", revealed |-> 0,
                warned |-> FALSE, passed |-> FALSE]
    /\ mgr = NotInView
    /\ kube = NotInView
    /\ eng \in [call : {"none"}, actual : Values,
                \* Check.Value: nil, a YAML string or a YAML integer.
                expected : {[kind |-> "nil"]}
                           \cup {[kind |-> "string", str |-> v] : v \in Values}
                           \cup {[kind |-> "int", int |-> n] : n \in {-1, 5, 10}},
                valueType : {"", "string", "number", "quantity"}, result : {<<>>}]

NextCompare == CompareCall

SpecCompare == InitCompare /\ [][NextCompare]_vars

(***************************************************************************)
(* internal/checks: runFileCheck on a small file system.  A path is the    *)
(* sequence of its components, an absolute one starting with "/".          *)
(***************************************************************************)
\* Check.Path: empty, relative or absolute.
CheckPaths == {<<>>, <<"app.txt">>, <<"/", "app.txt">>}

\* filepath.IsAbs and filepath.Join(workDir, path), workDir being /work.
IsAbs(path) == path # <<>> /\ path[1] = "/"

ResolvePath(path) == IF IsAbs(path) THEN path ELSE <<"/", "work">> \o path

\* The places the declared paths resolve to.
Places == {ResolvePath(p) : p \in CheckPaths \ {<<>>}}

Absent == [kind |-> "absent", content |-> <<>>, readable |-> FALSE]

\* What os.Stat and os.ReadFile find at a place.
Nodes ==
    {Absent, [kind |-> "dir", content |-> <<>>, readable |-> FALSE]}
    \cup [kind : {"file"}, content : {<<>>, <<"5">>}, readable : {TRUE}]
    \cup {[kind |-> "file", content |-> <<>>, readable |-> FALSE]}

\* Check as runFileCheck reads it: Path, Exists (*bool), Operator, Value.
FileChecks ==
    [path : CheckPaths, exists : {"nil", "true", "false"}, operator : Operators,
     value : {[kind |-> "nil"], [kind |-> "string", str |-> <<"5">>],
              [kind |-> "int", int |-> 5]}]

FileResult(passed, message, compared) ==
    [passed |-> passed, message |-> message, compared |-> compared]

\* Mutant of runFileCheck: with exists set, existence is all that is checked.
runFileCheckExistenceOnly(check, fs) ==
    LET node == fs[ResolvePath(check.path)]
        exists == node.kind # "absent"
        declared == check.value.kind # "nil" \/ check.operator # ""
    IN
    IF check.path = <<>> THEN FileResult(FALSE, <<"missing file path">>, FALSE)
    ELSE IF check.exists # "nil" /\ exists # (check.exists = "true")
    THEN IF check.exists = "true"
         THEN FileResult(FALSE, <<"file does not exist: ", check.path>>, FALSE)
         ELSE FileResult(FALSE, <<"file exists but should not: ", check.path>>, FALSE)
    ELSE IF check.exists # "nil" THEN FileResult(TRUE, <<>>, FALSE)
    ELSE IF ~exists THEN FileResult(FALSE, <<"file not found: ", check.path>>, FALSE)
    ELSE IF node.kind = "dir"
    THEN IF ~declared THEN FileResult(TRUE, <<>>, FALSE)
         ELSE FileResult(FALSE, <<"cannot check content of directory">>, FALSE)
    ELSE IF declared
    THEN IF ~node.readable THEN FileResult(FALSE, <<"read file: ">>, FALSE)
         ELSE LET v == compareValue(node.content, check.operator, check.value, "string")
              IN  FileResult(v.passed, v.message, TRUE)
    ELSE FileResult(TRUE, <<>>, FALSE)

\* checks.runFileCheck
runFileCheck(check, fs) ==
    LET node == fs[ResolvePath(check.path)]
        exists == node.kind # "absent"
        declared == check.value.kind # "nil" \/ check.operator # ""
    IN
    IF check.path = <<>> THEN FileResult(FALSE, <<"missing file path">>, FALSE)
    ELSE IF check.exists # "nil" /\ exists # (check.exists = "true")
    THEN IF check.exists = "true"
         THEN FileResult(FALSE, <<"file does not exist: ", check.path>>, FALSE)
         ELSE FileResult(FALSE, <<"file exists but should not: ", check.path>>, FALSE)
    ELSE IF check.exists = "false" THEN FileResult(TRUE, <<>>, FALSE)
    ELSE IF ~exists THEN FileResult(FALSE, <<"file not found: ", check.path>>, FALSE)
    ELSE IF node.kind = "dir"
    THEN IF ~declared THEN FileResult(TRUE, <<>>, FALSE)
         ELSE FileResult(FALSE, <<"cannot check content of directory">>, FALSE)
    ELSE IF declared
    THEN IF ~node.readable THEN FileResult(FALSE, <<"read file: ">>, FALSE)
         ELSE LET v == compareValue(node.content, check.operator, check.value, "string")
              IN  FileResult(v.passed, v.message, TRUE)
    ELSE FileResult(TRUE, <<>>, FALSE)

FileCheckCall ==
    /\ eng.call \in {"none", "file"}
    /\ eng' = [eng EXCEPT !.call = "file", !.result = runFileCheck(eng.check, eng.fs)]
    /\ UNCHANGED cmdVars
    /\ UNCHANGED <<mgr, kube>>

\* The learner deletes what is at a place; deletedAfterPass records that it
\* is the checked path and that the check had just passed on it.
RemovePath ==
    /\ eng.call \in {"none", "file"}
    /\ \E place \in Places :
          /\ eng.fs[place].kind # "absent"
          /\ eng' = [eng EXCEPT !.call = "none",
                                !.fs = [eng.fs EXCEPT ![place] = Absent],
                                !.result = FileResult(FALSE, <<>>, FALSE),
                                !.deletedAfterPass =
                                    /\ eng.call = "file"
                                    /\ eng.result.passed
                                    /\ eng.check.path # <<>>
                                    /\ place = ResolvePath(eng.check.path)]
    /\ UNCHANGED cmdVars
    /\ UNCHANGED <<mgr, kube>>

\* The learner creates a file or a directory at an empty place.
CreatePath ==
    /\ eng.call \in {"none", "file"}
    /\ \E place \in Places, node \in Nodes \ {Absent} :
          /\ eng.fs[place].kind = "absent"
          /\ eng' = [eng EXCEPT !.call = "none",
                                !.fs = [eng.fs EXCEPT ![place] = node],
                                !.result = FileResult(FALSE, <<>>, FALSE),
                                !.deletedAfterPass = FALSE]
    /\ UNCHANGED cmdVars
    /\ UNCHANGED <<mgr, kube>>

\* One file check and a working directory with something, or nothing, at the
\* checked places.
InitFile ==
    /\ tasks = {"dock-a"}
    /\ fileState = "missing"
    /\ fileDoc = EmptyFile
    /\ current = ""
    /\ cluster = "none"
    /\ dockerEnv = [n \in ExerciseNames |-> "none"]
    /\ now = 1
    /\ last = [op |-> "none", name |-> "", res |-> "ok", revealed |-> 0,
                warned |-> FALSE, passed |-> FALSE]
    /\ mgr = NotInView
    /\ kube = NotInView
    /\ eng \in [call : {"none"}, check : FileChecks, fs : [Places -> Nodes],
                result : {FileResult(FALSE, <<>>, FALSE)}, deletedAfterPass : {FALSE}]

NextFile == FileCheckCall \/ RemovePath \/ CreatePath

SpecFile == InitFile /\ [][NextFile]_vars

(***************************************************************************)
(* internal/scenario: LoadCatalog over a tasks directory, given as what    *)
(* filepath.WalkDir visits below the root, in its order.                   *)
(***************************************************************************)
DefinitionNames == {"a", "b"}

\* What the walk visits: a directory (that can be listed or not), a file
\* that is not named task.yaml, or a task.yaml that is valid and declares a
\* name, cannot be read, fails the schema, or does not decode.
WalkItems ==
    [kind : {"dir"}, base : {"d"}, state : {"ok", "unreadable"}, name : {""}]
    \cup {[kind |-> "file", base |-> "README.md", state |-> "valid", name |-> ""]}
    \cup [kind : {"file"}, base : {"task.yaml"}, state : {"valid"}, name : DefinitionNames]
    \cup [kind : {"file"}, base : {"task.yaml"},
          state : {"unreadable", "invalid", "undecodable"}, name : {""}]

\* The tasks directory: missing, not a directory, or a tree.
TasksDirs ==
    {[kind |-> "missing", items |-> <<>>], [kind |-> "file", items |-> <<>>]}
    \cup [kind : {"dir"}, items : UNION {[1..n -> WalkItems] : n \in 0..MaxFiles}]

\* scenario.LoadExerciseFile: the error, "nil" for none.
LoadExerciseFile(item) ==
    CASE item.state = "unreadable" -> "read exercise file"
      [] item.state = "invalid" -> "validation"
      [] item.state = "undecodable" -> "parse exercise yaml"
      [] OTHER -> "nil"

\* CatalogEntry: the exercise (its name) and the path (the place in the walk).
CatalogEntry(item, i) == [name |-> item.name, path |-> i]

\* Mutant of WalkFrom: a definition that does not load is skipped.
RECURSIVE WalkFromSkipping(_, _, _)
WalkFromSkipping(items, i, entries) ==
    IF i > Len(items) THEN [entries |-> entries, err |-> "nil"]
    ELSE LET item == items[i] IN
         IF item.kind = "dir"
         THEN IF item.state = "unreadable" THEN [entries |-> entries, err |-> "walk"]
              ELSE WalkFromSkipping(items, i + 1, entries)
         ELSE IF item.base # "task.yaml" THEN WalkFromSkipping(items, i + 1, entries)
         ELSE IF LoadExerciseFile(item) # "nil" THEN WalkFromSkipping(items, i + 1, entries)
         ELSE WalkFromSkipping(items, i + 1, Append(entries, CatalogEntry(item, i)))

\* The callback of filepath.WalkDir from item i on; an error ends the walk.
RECURSIVE WalkFrom(_, _, _)
WalkFrom(items, i, entries) ==
    IF i > Len(items) THEN [entries |-> entries, err |-> "nil"]
    ELSE LET item == items[i] IN
         IF item.kind = "dir"
         THEN IF item.state = "unreadable" THEN [entries |-> entries, err |-> "walk"]
              ELSE WalkFrom(items, i + 1, entries)
         ELSE IF item.base # "task.yaml" THEN WalkFrom(items, i + 1, entries)
         ELSE IF LoadExerciseFile(item) # "nil"
         THEN [entries |-> entries, err |-> LoadExerciseFile(item)]
         ELSE WalkFrom(items, i + 1, Append(entries, CatalogEntry(item, i)))

\* scenario.LoadCatalog: nil entries with every error.
LoadCatalog(tasksDir) ==
    IF tasksDir.kind = "missing" THEN [entries |-> <<>>, err |-> "tasks dir not found"]
    ELSE IF tasksDir.kind # "dir"
    THEN [entries |-> <<>>, err |-> "tasks path is not a directory"]
    ELSE LET walk == WalkFrom(tasksDir.items, 1, <<>>)
         IN  IF walk.err # "nil" THEN [entries |-> <<>>, err |-> walk.err] ELSE walk

\* scenario.FindByName on the loaded entries: the index of the first entry
\* with the name, 0 when there is none.
FindByNameIn(entries, name) ==
    IF \E i \in DOMAIN entries : entries[i].name = name
    THEN CHOOSE i \in DOMAIN entries :
            /\ entries[i].name = name
            /\ \A j \in 1..(i - 1) : entries[j].name # name
    ELSE 0

LoadCatalogCall ==
    /\ eng.call = "none"
    /\ LET c == LoadCatalog(eng.tasksDir)
       IN  eng' = [eng EXCEPT !.call = "load", !.entries = c.entries, !.err = c.err]
    /\ UNCHANGED cmdVars
    /\ UNCHANGED <<mgr, kube>>

\* The opening of every command that names an exercise: load the catalog,
\* return its error, find the exercise.
LookupCall ==
    /\ eng.call = "none"
    /\ \E name \in DefinitionNames :
          LET c == LoadCatalog(eng.tasksDir)
              found == FindByNameIn(c.entries, name)
          IN  eng' = [eng EXCEPT !.call = "lookup", !.entries = c.entries, !.err = c.err,
                                 !.name = name, !.found = found,
                                 !.res = IF c.err # "nil" THEN "catalog_error"
                                         ELSE IF found = 0 THEN "not_found" ELSE "found"]
    /\ UNCHANGED cmdVars
    /\ UNCHANGED <<mgr, kube>>

\* A tasks directory; nothing loaded yet.
InitCatalog ==
    /\ tasks = {"kube-a"}
    /\ fileState = "missing"
    /\ fileDoc = EmptyFile
    /\ current = ""
    /\ cluster = "none"
    /\ dockerEnv = [n \in ExerciseNames |-> "none"]
    /\ now = 1
    /\ last = [op |-> "none", name |-> "", res |-> "ok", revealed |-> 0,
                warned |-> FALSE, passed |-> FALSE]
    /\ mgr = NotInView
    /\ kube = NotInView
    /\ eng \in [call : {"none"}, tasksDir : TasksDirs, entries : {<<>>}, err : {"nil"},
                name : {""}, found : {0}, res : {""}]

NextCatalog == LoadCatalogCall \/ LookupCall

SpecCatalog == InitCatalog /\ [][NextCatalog]_vars

(***************************************************************************)
(* Two gymctl processes on one progress file: a mark* function is a        *)
(* progress.Load and, later, a progress.Save of the loaded document with   *)
(* the one entry changed; nothing locks the file in between.               *)
(***************************************************************************)
Procs == {"p1", "p2"}

RaceNames == {"kube-a", "kube-b"}

\* The entry markStarted, markStopped and markReset store.
MarkedEntry(op, entry, t) ==
    CASE op = "start" -> startedEntry(entry, t)
      [] op = "stop" -> stoppedEntry(entry)
      [] op = "reset" -> resetEntry(entry, t)

\* progress.Load at the head of a mark* function.
LoadStep(p) ==
    /\ eng.pc[p] = "idle"
    /\ eng.runs[p] < MaxRuns
    /\ \E op \in {"start", "stop", "reset"}, name \in RaceNames :
          eng' = [eng EXCEPT !.pc[p] = "loaded", !.op[p] = op, !.name[p] = name,
                             !.file[p] = Load(fileState, fileDoc).file,
                             !.stale[p] = FALSE, !.lost = {}]
    /\ UNCHANGED cmdVars
    /\ UNCHANGED <<mgr, kube>>

\* The rest of the mark* function: change the entry in the loaded document
\* and progress.Save it.  lost: the exercises whose entry on disk this save
\* has replaced although it is not the entry the function changed.
SaveStep(p) ==
    /\ eng.pc[p] = "loaded"
    /\ LET name == eng.name[p]
           file == eng.file[p]
           entry == MarkedEntry(eng.op[p], Get(file.exercises, name), now)
           written == [file EXCEPT !.exercises = Put(@, name, entry)]
           disk == Save(written)
           before == Load(fileState, fileDoc).file.exercises
       IN  /\ fileState' = disk.state
           /\ fileDoc' = disk.doc
           /\ eng' = [eng EXCEPT !.pc[p] = "idle", !.runs[p] = @ + 1,
                                 !.stale = [q \in Procs |->
                                              IF q # p /\ eng.pc[q] = "loaded"
                                              THEN TRUE ELSE eng.stale[q]],
                                 !.lost = {m \in RaceNames \ {name} :
                                             Get(written.exercises, m) # Get(before, m)}]
    /\ UNCHANGED <<tasks, current, cluster, dockerEnv, now, last>>
    /\ UNCHANGED <<mgr, kube>>

\* Two idle processes and no progress file yet.
InitRace ==
    /\ tasks = RaceNames
    /\ fileState = "missing"
    /\ fileDoc = EmptyFile
    /\ current = ""
    /\ cluster = "none"
    /\ dockerEnv = [n \in ExerciseNames |-> "none"]
    /\ now = 1
    /\ last = [op |-> "none", name |-> "", res |-> "ok", revealed |-> 0,
                warned |-> FALSE, passed |-> FALSE]
    /\ mgr = NotInView
    /\ kube = NotInView
    /\ eng = [call |-> "race",
              pc |-> [p \in Procs |-> "idle"],
              op |-> [p \in Procs |-> "start"],
              name |-> [p \in Procs |-> "kube-a"],
              file |-> [p \in Procs |-> EmptyFile],
              stale |-> [p \in Procs |-> FALSE],
              runs |-> [p \in Procs |-> 0],
              lost |-> {}]

NextRace == \E p \in Procs : LoadStep(p) \/ SaveStep(p)

SpecRace == InitRace /\ [][NextRace]_vars

(***************************************************************************)
(* Properties.                                                             *)
(***************************************************************************)
\* The progress entry of an exercise as the document on disk has it.
Entry(name) == Get(fileDoc.exercises, name)

\* The same entry after the step.
EntryAfter(name) == Get(fileDoc'.exercises, name)

\* The last command was `op` and returned without error.
Ran(op) == last.op = op /\ last.res = "ok"

\* The declared lifecycle, as pairs <<from, to>>.
Lifecycle ==
    {<<"", "in_progress">>, <<"not_started", "in_progress">>,
     <<"in_progress", "completed">>, <<"in_progress", "stopped">>,
     <<"completed", "in_progress">>, <<"stopped", "in_progress">>}

\* C1: under start, check, stop, reset and hint, every change of an
\* exercise's status is one of the declared lifecycle steps.
C1_StatusFollowsLifecycle ==
    [][\A n \in ExerciseNames :
          EntryAfter(n).status # Entry(n).status
              => <<Entry(n).status, EntryAfter(n).status>> \in Lifecycle]_vars

\* C2: without recover, resets and hintsUsed of an exercise never decrease.
C2_CountersMonotonic ==
    [][\A n \in ExerciseNames :
          /\ EntryAfter(n).resets >= Entry(n).resets
          /\ EntryAfter(n).hintsUsed >= Entry(n).hintsUsed]_vars

\* C3: a completed exercise stays completed under start, stop, check and
\* hint; only a reset changes its status.
C3_CompletedUntilReset ==
    [][\A n \in ExerciseNames :
          (Entry(n).status = "completed" /\ last'.op # "reset")
              => EntryAfter(n).status = "completed"]_vars

\* C4: a successful reset adds exactly 1 to resets, sets in_progress, stamps
\* startedAt with the current time and leaves hintsUsed as it was.
C4_ResetEffect ==
    [][Ran("reset")' =>
          LET n == last'.name IN
          /\ EntryAfter(n).resets = Entry(n).resets + 1
          /\ EntryAfter(n).status = "in_progress"
          /\ EntryAfter(n).startedAt = now
          /\ EntryAfter(n).hintsUsed = Entry(n).hintsUsed]_vars

\* C4 witness: a completed exercise with hints used was reset at a later time.
C4_Witness ==
    /\ Ran("reset")
    /\ Entry(last.name).hintsUsed > 0
    /\ Entry(last.name).completedAt > 0
    /\ Entry(last.name).startedAt > Entry(last.name).completedAt

\* C5: hintsUsed never exceeds the declared hint count; a hint command adds
\* to hintsUsed exactly the number of hints it revealed; at the limit it
\* reports "no more hints" as a success and leaves the document alone.
C5_HintsCounted ==
    [][/\ \A n \in tasks : EntryAfter(n).hintsUsed <= Catalog[n].hints
       /\ last'.op = "hint" /\ last'.name \in tasks /\ last'.res # "catalog_error" =>
            LET n == last'.name IN
            /\ EntryAfter(n).hintsUsed = Entry(n).hintsUsed + last'.revealed
            /\ Entry(n).hintsUsed = Catalog[n].hints =>
                  /\ last'.res = "no_more_hints"
                  /\ Disk(fileState, fileDoc)' = Disk(fileState, fileDoc)]_vars

\* C6: markStarted always leaves in_progress; it stamps startedAt and zeroes
\* hintsUsed and resets exactly when the status was empty or not_started.
C6_StartEffect ==
    [][(last'.op = "start" /\ last'.res \in {"ok", "copy_failed"}) =>
          LET n == last'.name IN
          /\ EntryAfter(n).status = "in_progress"
          /\ IF Entry(n).status \in {"", "not_started"}
             THEN /\ EntryAfter(n).startedAt = now
                  /\ EntryAfter(n).hintsUsed = 0
                  /\ EntryAfter(n).resets = 0
             ELSE /\ EntryAfter(n).startedAt = Entry(n).startedAt
                  /\ EntryAfter(n).hintsUsed = Entry(n).hintsUsed
                  /\ EntryAfter(n).resets = Entry(n).resets]_vars

\* C6 witness: an exercise that had been reset, hinted and completed was
\* started again and kept its counters and its older startedAt.
C6_Witness ==
    /\ Ran("start")
    /\ Entry(last.name).hintsUsed > 0
    /\ Entry(last.name).resets > 0
    /\ Entry(last.name).completedAt > 0
    /\ Entry(last.name).startedAt < now

C8_CompletedScore ==
    [][Ran("check")' =>
          LET n == last'.name IN
          /\ EntryAfter(n).status = "completed"
          /\ EntryAfter(n).completedAt = now
          /\ EntryAfter(n).score =
                IF Catalog[n].points = 0 THEN 100 ELSE Catalog[n].points
          /\ EntryAfter(n).hintsUsed = Entry(n).hintsUsed
          /\ EntryAfter(n).resets = Entry(n).resets]_vars

\* C8 witness: an exercise with points 0, hints used and a reset behind it
\* was completed with score 100.
C8_Witness ==
    /\ Ran("check")
    /\ Catalog[last.name].points = 0
    /\ Entry(last.name).score = 100
    /\ Entry(last.name).hintsUsed > 0
    /\ Entry(last.name).resets > 0

ProvisionErrors ==
    {"catalog_error", "not_found", "exists_failed", "delete_failed",
     "create_failed", "apply_failed", "wait_failed", "teardown_failed",
     "setup_failed", "copy_failed"}

\* C10: a start or reset that fails with a catalog or provisioning error
\* leaves the progress document and the current pointer as they were.
C10_FailedProvisionAborts ==
    [][(last'.op \in {"start", "reset"} /\ last'.res \in ProvisionErrors) =>
          /\ Disk(fileState, fileDoc)' = Disk(fileState, fileDoc)
          /\ current' = current]_vars

\* The lifecycle commands that read and write the progress document.
LifecycleOps == {"start", "check", "stop", "reset", "hint"}

\* C11: while the progress document does not parse, start, check (also with
\* every check passed), stop, reset and hint end with an error and leave the
\* file as it is; the file changes only in a recover command.
C11_CorruptIsFatal ==
    [][fileState = "corrupt" =>
          /\ last'.op \in LifecycleOps =>
                /\ last'.res \notin {"ok", "no_more_hints"}
                /\ Disk(fileState, fileDoc)' = Disk(fileState, fileDoc)
          /\ Disk(fileState, fileDoc)' # Disk(fileState, fileDoc) =>
                /\ last'.op \in {"recover", "recover_all"}
                /\ Disk(fileState, fileDoc)' = Save(EmptyFile)]_vars

\* C11 witness: with the document corrupt, a reset provisioned its cluster
\* and then failed on the document, which is still corrupt.
C11_Witness ==
    /\ fileState = "corrupt"
    /\ last.op = "reset"
    /\ last.res = "progress_error"
    /\ cluster = last.name

\* The last DockerManager call was `call`.
MgrCalled(call) == mgr.call = call

\* C12: Teardown returns nil, whatever was set up before it and whatever
\* docker reports for rm and compose down.
C12_TeardownNeverFails == MgrCalled("teardown") => mgr.ret = "nil"

\* C13: every Teardown goes through docker rm -f of each declared container,
\* then compose down when a compose file is declared, then the removal of
\* the work directory, in this order and all of them.
C13_TeardownOrder ==
    MgrCalled("teardown") =>
        mgr.trace = RemoveSteps(mgr.spec, 1)
                        \o (IF mgr.spec.compose THEN <<Step("down", 0, "")>> ELSE <<>>)
                        \o <<Step("rmdir", 0, "")>>

\* C14: a Setup that returns nil on a declaration with a compose file,
\* containers and copyFiles has staged every file, brought the compose
\* project up and run every declared container.
C14_FeaturesCombine ==
    (/\ MgrCalled("setup")
     /\ mgr.ret = "nil"
     /\ mgr.spec.compose
     /\ Len(mgr.spec.containers) > 0
     /\ mgr.spec.copyFiles > 0) =>
        /\ mgr.res.staged = 1..mgr.spec.copyFiles
        /\ mgr.res.stack
        /\ \A i \in DOMAIN mgr.spec.containers :
              \E k \in DOMAIN mgr.trace : mgr.trace[k].op = "run" /\ mgr.trace[k].i = i

\* The steps of Setup that launch something.
LaunchOps == {"up", "build", "missing", "run"}

\* The k-th step of the last call failed.
FailedAt(k) == StepFails(mgr.trace[k], mgr.found, mgr.reported)

\* C15: in every Setup, all declared files are staged before anything is
\* launched; containers are handled in declaration order, a container with a
\* build context being built as <name>:latest just before it is run from that
\* image; without a compose file a Setup that returns nil has run them all;
\* the first failed step is the last step taken and Setup returns an error
\* exactly then; no teardown step is taken and nothing found is removed.
C15_SetupOrderAndAbort ==
    MgrCalled("setup") =>
        LET t == mgr.trace IN
        /\ \A k \in DOMAIN t : t[k].op \in LaunchOps =>
              \A f \in 1..mgr.spec.copyFiles :
                  \E j \in 1..(k - 1) : t[j] = Step("copy", f, "")
        /\ \A j, k \in DOMAIN t :
              (j < k /\ t[j].op = "copy" /\ t[k].op = "copy") => t[j].i < t[k].i
        /\ \A j, k \in DOMAIN t :
              (j < k /\ t[j].op \in LaunchOps /\ t[k].op \in LaunchOps) => t[j].i <= t[k].i
        /\ \A k \in DOMAIN t :
              (t[k].op = "run" /\ mgr.spec.containers[t[k].i] = "build") =>
                  /\ t[k].image = "name:latest"
                  /\ k > 1
                  /\ t[k - 1] = Step("build", t[k].i, "name:latest")
        /\ (mgr.ret = "nil" /\ ~mgr.spec.compose) =>
              \A i \in DOMAIN mgr.spec.containers :
                  \E k \in DOMAIN t : t[k].op = "run" /\ t[k].i = i
        /\ \A k \in DOMAIN t : FailedAt(k) <=> (k = Len(t) /\ mgr.ret = "error")
        /\ \A k \in DOMAIN t : t[k].op \notin {"down", "rm", "rmdir"}
        /\ mgr.found.staged \subseteq mgr.res.staged
        /\ mgr.found.running \subseteq mgr.res.running
        /\ mgr.found.workDir => mgr.res.workDir
        /\ mgr.found.stack => mgr.res.stack

\* C15 witness: with two files and the containers <<build, image>>, Setup
\* staged both files, built the first container, failed to run it and
\* returned the error; the files stay and the second container was not run.
C15_Witness ==
    /\ MgrCalled("setup")
    /\ mgr.ret = "error"
    /\ mgr.spec.containers = <<"build", "image">>
    /\ mgr.trace = <<Step("mkdir", 0, ""), Step("copy", 1, ""), Step("copy", 2, ""),
                     Step("build", 1, "name:latest"), Step("run", 1, "name:latest")>>
    /\ mgr.res.staged = {1, 2}
    /\ mgr.res.running = {}

\* The k-th step of the last kubernetes provisioning failed.
KubeFailedAt(k) ==
    LET before == RunPlan(SubSeq(kube.trace, 1, k - 1), 1, {}, kube.found, <<>>,
                          kube.reported).res
    IN  StepFails(kube.trace[k], before, kube.reported)

\* The steps a provisioning with a fresh cluster has to go through.
FreshSteps(spec, exists) ==
    (IF exists THEN <<Step("delete", 0, "")>> ELSE <<>>)
        \o <<Step("create", 0, "")>>
        \o AfterCluster(spec)

\* A sequence without its steps of operation `op`.
RECURSIVE Without(_, _)
Without(seq, op) ==
    IF seq = <<>> THEN <<>>
    ELSE (IF Head(seq).op = op THEN <<>> ELSE <<Head(seq)>>) \o Without(Tail(seq), op)

\* p is a prefix of q.
IsPrefix(p, q) == Len(p) <= Len(q) /\ SubSeq(q, 1, Len(p)) = p

\* C16: when start or reset provisions with a fresh cluster, the calls are
\* delete (when the cluster exists), create, apply per manifest, wait per
\* condition, in this order; no call follows a failed one; create is not
\* called while the cluster exists; the progress transition comes last,
\* after every step succeeded.
C16_ProvisionOrder ==
    (kube.call \in {"start", "reset"} /\ kube.createCluster) =>
        LET t == kube.trace
            calls == Without(t, "exists")
        IN  /\ \/ IsPrefix(calls, FreshSteps(kube.spec, kube.found.cluster))
               \/ IsPrefix(calls, FreshSteps(kube.spec, TRUE))
            /\ \A k \in DOMAIN t : KubeFailedAt(k) => k = Len(t)
            /\ \A k \in DOMAIN t :
                  t[k].op = "create" =>
                      ~RunPlan(SubSeq(t, 1, k - 1), 1, {}, kube.found, <<>>,
                               kube.reported).res.cluster
            /\ \A k \in DOMAIN t :
                  t[k].op = "mark" =>
                      /\ k = Len(t)
                      /\ kube.ret = "nil"
                      /\ \A j \in 1..(k - 1) : ~KubeFailedAt(j)

\* The docker exercises whose environment is up.
LiveDocker == {n \in tasks : dockerEnv[n] = "up"}

\* C17: after any start, stop or reset at most one docker exercise has its
\* environment up, and a start or reset that provisions a fresh cluster
\* leaves cluster jerry-gym as created for that exercise.
C17_EnvironmentsExclusive ==
    [][/\ Cardinality(LiveDocker') <= 1
       /\ (/\ last'.op \in {"start", "reset"}
           /\ last'.res = "ok"
           /\ Catalog[last'.name].envType = "kubernetes"
           /\ cluster' # cluster) => cluster' = last'.name]_vars

\* The kind is one the dispatch knows for an exercise of this environment.
Recognised(exercise, kind) ==
    \/ kind \in AgnosticKinds
    \/ exercise.envType = "kubernetes" /\ kind \in KubernetesKinds
    \/ exercise.envType = "docker" /\ kind \in DockerKinds

\* The exercise has a backend the dispatch can work with.
HasBackend(exercise) ==
    \/ exercise.envType = "docker"
    \/ exercise.envType = "kubernetes" /\ exercise.hasKubernetes

\* C18: RunExerciseChecks returns one result per declared check, in
\* declaration order, whatever the checks before it found; a check of a kind
\* the exercise's backend does not know fails with "unsupported check type:
\* <kind>"; every check of a known kind is evaluated and passes as found.
C18_EveryCheckEvaluated ==
    eng.call = "checks" =>
        /\ Len(eng.results) = Len(eng.checks)
        /\ \A i \in DOMAIN eng.checks :
              LET check == eng.checks[i]
                  result == eng.results[i]
              IN  /\ result.name \in {check.name, check.kind}
                  /\ check.name # "" => result.name = check.name
                  /\ (HasBackend(eng.exercise) /\ ~Recognised(eng.exercise, check.kind)) =>
                        /\ ~result.passed
                        /\ result.message = <<"unsupported check type: ", check.kind>>
                  /\ (HasBackend(eng.exercise) /\ Recognised(eng.exercise, check.kind)) =>
                        result.passed = eng.found[i]
                  /\ ~HasBackend(eng.exercise) /\ check.kind \notin AgnosticKinds =>
                        ~result.passed

\* C18 witness: on a docker exercise the first check, of a kubernetes kind,
\* failed as unsupported and the second check was still evaluated and passed.
C18_Witness ==
    /\ eng.call = "checks"
    /\ eng.exercise.envType = "docker"
    /\ Len(eng.checks) = 2
    /\ eng.checks[1].kind = "condition"
    /\ eng.results[1].message = <<"unsupported check type: ", "condition">>
    /\ eng.results[2].passed
    /\ eng.results[2].name = "b"

\* The check command got as far as evaluating the exercise's checks.
Evaluated == last.op = "check" /\ last.res \in {"ok", "checks_failed", "progress_error"}

DeclaredAssertions(expect) ==
    {a \in Assertions : \/ a = "contains" /\ expect.contains
                        \/ a = "notContains" /\ expect.notContains
                        \/ a = "regex" /\ expect.regex # ""}

\* The process ran and exited with the expected code, 0 when none is declared.
GatePasses(check, run) ==
    /\ check.runnable
    /\ run.exited
    /\ run.code = (IF check.expectExitCode.declared THEN check.expectExitCode.code ELSE 0)

\* C20: for a check that runs a process, with an expected exit code declared
\* a process that exited fails the gate exactly on a mismatch of the codes;
\* with none declared any non-zero exit fails the check without looking at
\* the output; assertions are evaluated only after the gate has passed; the
\* check passes iff the gate passes and every declared assertion holds.  (A
\* process that could not be run has no exit code and fails the gate.)
C20_GateThenAssertions ==
    eng.call = "process" =>
        LET check == eng.check
            run == eng.run
            result == eng.result
            declared == DeclaredAssertions(check.expectOutput)
        IN  /\ (check.runnable /\ check.expectExitCode.declared /\ run.exited) =>
                  /\ result.message = "expected exit code"
                        <=> run.code # check.expectExitCode.code
                  /\ run.code = check.expectExitCode.code => result.message # "error"
            /\ (check.runnable /\ ~check.expectExitCode.declared /\ run.code # 0) =>
                  ~result.passed /\ result.evaluated = {}
            /\ result.evaluated # {} => GatePasses(check, run)
            /\ result.evaluated \subseteq declared
            /\ result.passed => result.evaluated = declared
            /\ result.passed <=>
                  /\ GatePasses(check, run)
                  /\ \A a \in declared :
                        a \in run.holds /\ (a = "regex" => check.expectOutput.regex = "valid")

\* C20 witness: a check expecting exit code 1 with a contains and a regex
\* assertion passed on a process that exited with code 1.
C20_Witness ==
    /\ eng.call = "process"
    /\ eng.check.expectExitCode = [declared |-> TRUE, code |-> 1]
    /\ eng.run.code = 1
    /\ eng.result.passed
    /\ eng.result.evaluated = {"contains", "regex"}

\* What is at the path the file check names.
CheckedNode == eng.fs[ResolvePath(eng.check.path)]

\* The file check declares a content comparison.
DeclaresContent == eng.check.value.kind # "nil" \/ eng.check.operator # ""

\* C21: a file check {path: P, exists: true} passes while P exists; run again
\* after P was deleted, nothing else changed, it fails with the message
\* "file not found: P".
C21_DeletedFileNotFound ==
    (/\ eng.call = "file" /\ eng.check.path # <<>> /\ eng.check.exists = "true"
     /\ ~DeclaresContent) =>
        /\ CheckedNode.kind # "absent" => eng.result.passed
        /\ eng.deletedAfterPass =>
              /\ ~eng.result.passed
              /\ eng.result.message = <<"file not found: ", eng.check.path>>

\* C22: with exists false a file check passes iff the path is absent and
\* compares no content; with exists true or unset it fails on an absent
\* path; on a directory it fails when it declares an operator or a value and
\* passes otherwise; on a regular file it has the verdict of the comparison
\* of the content (compared as a string) when it declares an operator or a
\* value, failing when the content cannot be read, and passes otherwise.
C22_FileCheckVerdict ==
    (eng.call = "file" /\ eng.check.path # <<>>) =>
        LET node == CheckedNode
            result == eng.result
        IN  /\ eng.check.exists = "false" =>
                  /\ result.passed <=> node.kind = "absent"
                  /\ ~result.compared
            /\ (eng.check.exists # "false" /\ node.kind = "absent") => ~result.passed
            /\ (eng.check.exists # "false" /\ node.kind = "dir") =>
                  /\ result.passed <=> ~DeclaresContent
                  /\ ~result.compared
            /\ (eng.check.exists # "false" /\ node.kind = "file") =>
                  IF ~DeclaresContent THEN result.passed /\ ~result.compared
                  ELSE IF ~node.readable THEN ~result.passed
                  ELSE /\ result.compared
                       /\ result.passed =
                             compareValue(node.content, eng.check.operator,
                                          eng.check.value, "string").passed
                       /\ eng.check.operator \in {"greaterThan", "lessThan", "bogus"}
                             => ~result.passed

\* C22 witness: a check with exists true and operator contains passed on a
\* regular file whose content contains the value.
C22_Witness ==
    /\ eng.call = "file"
    /\ eng.check.path = <<"app.txt">>
    /\ eng.check.exists = "true"
    /\ eng.check.operator = "contains"
    /\ eng.check.value.kind = "int"
    /\ CheckedNode.content = <<"5">>
    /\ eng.result.passed
    /\ eng.result.compared

\* The magnitude both strings parse to under the value type, if they do.
Parsed(s, valueType) ==
    IF valueType = "number" THEN ParseFloat(s) ELSE ParseQuantity(s)

\* C23: greaterThan and lessThan pass only if the value type is number or
\* quantity, both values parse and the strict relation holds between the
\* parsed magnitudes (and then they do pass); equal magnitudes satisfy
\* neither, the two never both pass, and any other value type fails.
C23_OrderedComparisonStrict ==
    eng.call = "compare" =>
        LET a == Parsed(eng.actual, eng.valueType)
            e == Parsed(Sprint(eng.expected), eng.valueType)
            typed == eng.valueType \in {"number", "quantity"}
            gt == eng.result["greaterThan"].passed
            lt == eng.result["lessThan"].passed
        IN  /\ gt <=> (typed /\ a.ok /\ e.ok /\ a.num * e.den > e.num * a.den)
            /\ lt <=> (typed /\ a.ok /\ e.ok /\ a.num * e.den < e.num * a.den)
            /\ ~(gt /\ lt)
            /\ (typed /\ a.ok /\ e.ok /\ a.num * e.den = e.num * a.den) => ~gt /\ ~lt
            /\ ~typed => /\ eng.result["greaterThan"] =
                              Verdict(FALSE, <<"valueType required for ordered comparison">>)
                         /\ eng.result["lessThan"] = eng.result["greaterThan"]

\* C23 witness: the quantities 5000m and 5 were compared: they are equal and
\* neither relation passed.
C23_Witness ==
    /\ eng.call = "compare"
    /\ eng.valueType = "quantity"
    /\ eng.actual = <<"5", "0", "0", "0", "m">>
    /\ eng.expected = [kind |-> "int", int |-> 5]
    /\ ~eng.result["greaterThan"].passed
    /\ ~eng.result["lessThan"].passed
    /\ eng.result["greaterThan"].message = <<"expected >">>

\* The places of the definition files (the files named task.yaml) in the walk.
DefinitionFiles(tasksDir) ==
    {i \in DOMAIN tasksDir.items :
        tasksDir.items[i].kind = "file" /\ tasksDir.items[i].base = "task.yaml"}

\* The tasks directory cannot be walked, or one of its definition files
\* cannot be read, is invalid or does not decode.
Unloadable(tasksDir) ==
    \/ tasksDir.kind # "dir"
    \/ \E i \in DOMAIN tasksDir.items :
          \/ tasksDir.items[i].kind = "dir" /\ tasksDir.items[i].state = "unreadable"
          \/ i \in DefinitionFiles(tasksDir) /\ tasksDir.items[i].state # "valid"

\* C24: if any definition file under the root fails to read, validate or
\* decode, load returns an error and no entries, and a command that loads
\* the catalog fails whichever exercise it names; if all files are valid,
\* load returns one entry per definition file, in the order of the walk.
C24_CatalogAllOrNothing ==
    eng.call \in {"load", "lookup"} =>
        /\ Unloadable(eng.tasksDir) =>
              /\ eng.err # "nil"
              /\ eng.entries = <<>>
              /\ eng.call = "lookup" => eng.res = "catalog_error"
        /\ ~Unloadable(eng.tasksDir) =>
              /\ eng.err = "nil"
              /\ Len(eng.entries) = Cardinality(DefinitionFiles(eng.tasksDir))
              /\ {eng.entries[k].path : k \in DOMAIN eng.entries}
                    = DefinitionFiles(eng.tasksDir)
              /\ \A k \in DOMAIN eng.entries :
                    /\ eng.entries[k].name = eng.tasksDir.items[eng.entries[k].path].name
                    /\ \A l \in DOMAIN eng.entries :
                          k < l => eng.entries[k].path < eng.entries[l].path

\* C24 witness: a command naming the exercise of a valid definition failed
\* on the catalog because a later definition file is invalid.
C24_Witness ==
    /\ eng.call = "lookup"
    /\ Len(eng.tasksDir.items) >= 2
    /\ eng.tasksDir.items[1].state = "valid"
    /\ eng.tasksDir.items[1].name = eng.name
    /\ eng.tasksDir.items[2].state = "invalid"
    /\ eng.res = "catalog_error"
    /\ eng.entries = <<>>

\* Process p saves the document in this step.
Saves(p) == eng.call = "race" /\ eng.pc[p] = "loaded" /\ eng'.pc[p] = "idle"

\* C25: the document is read and written as a whole, with no lock.  A save
\* by a process that loaded after every earlier save (commands one after
\* another) stores the transition of its entry and leaves every other entry
\* as it is on disk; a save by a process that loaded before another
\* process's save writes the document as it was loaded, so the entries of
\* all other exercises go back to what they were at its load and the other
\* process's transition is lost, also for a different exercise.
C25_WholeDocumentNoLock ==
    [][\A p \in Procs : Saves(p) =>
          LET name == eng.name[p]
              loaded == eng.file[p].exercises
              before == Load(fileState, fileDoc).file.exercises
              after == fileDoc'.exercises
          IN  /\ fileState' = "valid"
              /\ Get(after, name) = MarkedEntry(eng.op[p], Get(loaded, name), now)
              /\ \A m \in RaceNames \ {name} : Get(after, m) = Get(loaded, m)
              /\ ~eng.stale[p] =>
                    /\ loaded = before
                    /\ \A m \in RaceNames \ {name} : Get(after, m) = Get(before, m)
                    /\ eng'.lost = {}
              /\ eng'.lost # {} => eng.stale[p]]_vars

\* C25 witness: both processes loaded the empty document, one saved the
\* start of kube-a, and the save of the other, a start of kube-b, has just
\* put kube-a's entry back to not started.
C25_Witness ==
    /\ eng.call = "race"
    /\ eng.lost = {"kube-a"}
    /\ Get(fileDoc.exercises, "kube-a").status = ""
    /\ Get(fileDoc.exercises, "kube-b").status = "in_progress"
    /\ eng.runs = [p \in Procs |-> 1]

\* The progress document a command finds: what progress.Load returns.
View == Load(fileState, fileDoc).file

\* C27: a start, check, stop, reset or hint on exercise X changes no entry
\* but that of X, adds and removes no other entry, and leaves the document
\* version as it is.
C27_OnlyOwnEntryChanges ==
    [][last'.op \in {"start", "check", "stop", "reset", "hint"} =>
          /\ View'.version = View.version
          /\ \A n \in ExerciseNames \ {last'.name} :
                /\ EntryAfter(n) = Entry(n)
                /\ n \in DOMAIN fileDoc'.exercises <=> n \in DOMAIN fileDoc.exercises
          /\ Disk(fileState, fileDoc)' # Disk(fileState, fileDoc) =>
                /\ last'.name \in DOMAIN fileDoc'.exercises
                /\ fileState' = "valid"]_vars

\* C27 witness: with the second exercise completed and dock-a in progress
\* with a hint used, dock-a was reset and the other entry is still the
\* completed one.
C27_Witness ==
    /\ Ran("reset")
    /\ last.name = "dock-a"
    /\ Entry("dock-a").resets = 1
    /\ Entry("dock-a").hintsUsed = 1
    /\ Entry("broken").status = "completed"
    /\ Entry("broken").score = 100

\* C28: a stop of a cluster-backed exercise that returns without error has
\* deleted the cluster with the reserved name, whichever exercise's start
\* created it (a failed deletion is reported and leaves the cluster), has
\* set the stopped exercise's status to stopped and has changed the entry
\* of no other exercise.
C28_StopDeletesSharedCluster ==
    [][(/\ last'.op = "stop" /\ last'.res = "ok" /\ last'.name \in tasks
        /\ Catalog[last'.name].envType = "kubernetes") =>
          /\ ~last'.warned => cluster' = "none"
          /\ last'.warned => cluster' = cluster
          /\ EntryAfter(last'.name).status = "stopped"
          /\ \A n \in ExerciseNames \ {last'.name} : EntryAfter(n) = Entry(n)]_vars

\* C28 witness: kube-a and then kube-b were started, kube-a was stopped:
\* kube-b is in progress and is the current exercise, and there is no cluster.
C28_Witness ==
    /\ last.op = "stop" /\ last.res = "ok" /\ ~last.warned
    /\ last.name = "kube-a"
    /\ current = "kube-b"
    /\ Entry("kube-a").status = "stopped"
    /\ Entry("kube-a").startedAt > 0
    /\ Entry("kube-b").status = "in_progress"
    /\ cluster = "none"

\* The scores of the catalogued exercises whose status is completed, summed.
RECURSIVE CompletedScores(_)
CompletedScores(names) ==
    IF names = {} THEN 0
    ELSE LET n == CHOOSE e \in names : TRUE
         IN  (IF Entry(n).status = "completed" THEN Entry(n).score ELSE 0)
                + CompletedScores(names \ {n})

\* C29: a start, stop or reset changes the score and completedAt of no
\* entry, so an exercise that was completed keeps both when its status
\* changes; the earned points of the status command are the scores of the
\* exercises whose status is completed, and of no other.
C29_ScoreKeptNotCounted ==
    [][/\ last'.op \in {"start", "stop", "reset"} =>
             \A n \in ExerciseNames :
                /\ EntryAfter(n).score = Entry(n).score
                /\ EntryAfter(n).completedAt = Entry(n).completedAt
       /\ (last'.op = "status" /\ last'.res = "ok") =>
             /\ eng'.earnedPoints = CompletedScores(tasks)
             /\ Disk(fileState, fileDoc)' = Disk(fileState, fileDoc)]_vars

\* C29 witness: both exercises were completed at time 1 and dock-b was
\* reset at time 2: it is in progress with the score and completedAt of the
\* completion, and the status command has just counted the points of the
\* other exercise only.
C29_Witness ==
    /\ last.op = "status" /\ last.res = "ok"
    /\ Entry("dock-b").status = "in_progress"
    /\ Entry("dock-b").resets = 1
    /\ Entry("dock-b").startedAt = 2
    /\ Entry("dock-b").completedAt = 1
    /\ Entry("dock-b").score = 20
    /\ Entry("broken").status = "completed"
    /\ eng.earnedPoints = 100

\* C30: the current-exercise pointer changes only in a start or a reset, to
\* the exercise of that command, whose saved status is then in_progress;
\* stop, check and hint leave it as it is; a check on the exercise the
\* pointer names, stopped before, with all checks passed makes it completed.
C30_PointerWrittenByStartAndReset ==
    [][/\ current' # current =>
             /\ last'.op \in {"start", "reset"}
             /\ current' = last'.name
             /\ fileState' = "valid"
             /\ EntryAfter(last'.name).status = "in_progress"
       /\ last'.op \in {"stop", "check", "hint"} => current' = current
       /\ Ran("stop")' /\ current = last'.name =>
             /\ current' = last'.name
             /\ EntryAfter(current').status = "stopped"
       /\ (/\ Ran("check")' /\ last'.name = current
           /\ Entry(current).status = "stopped") =>
             /\ last'.passed
             /\ EntryAfter(current').status = "completed"]_vars

\* C30 witness: the exercise the pointer names was started, stopped at a
\* later time and then completed by a check; the pointer still names it.
C30_Witness ==
    /\ Ran("check")
    /\ current = last.name
    /\ Entry(current).status = "completed"
    /\ Entry(current).startedAt = 1
    /\ Entry(current).completedAt = 2
    /\ Catalog[current].envType = "docker"
    /\ dockerEnv[current] = "none"

\* C26: in every catalog that load returns no two entries carry the same
\* name.
C26_NamesUnique ==
    (eng.call \in {"load", "lookup"} /\ eng.err = "nil") =>
        \A i, j \in DOMAIN eng.entries :
            eng.entries[i].name = eng.entries[j].name => i = j

====
